---- MODULE Spec2Model ----
(***************************************************************************)
(* h1-watcher: the fetch -> diff -> notify -> persist pipeline.            *)
(*                                                                         *)
(*   Spec      the orchestrator run() of src/src/watcher.js over the state *)
(*             file of src/src/db.js, invocation after invocation          *)
(*   SpecDiff  diffPrograms of src/src/db.js as a pure function            *)
(*   SpecFetch fetchWithRetry of the HackerOne client (src/unnamed/        *)
(*             part_003), one URL, every sequence of server outcomes       *)
(*   SpecAdd   addPrograms of src/src/db.js, called twice with one batch   *)
(*   SpecPages fetchPublicPrograms of the client, every sequence of pages  *)
(*   SpecChunk chunkMessages of the alerter (src/unnamed/part_001)         *)
(*   SpecNotify notify of the alerter, every outcome of every request      *)
(*                                                                         *)
(* A JavaScript string is a sequence of characters: an id is written with  *)
(* the decimal digits 0..9, a message with one-character strings.          *)
(***************************************************************************)
EXTENDS Integers, Sequences, FiniteSets, TLC

VARIABLES
    \* ---- the state file on disk and one invocation of run() ----
    file,            \* the state file: exists, valid (complete JSON of the expected shape), programs, last_run
    pc,              \* where run() is: idle, loaded, fetched, diffed, notified, dispatched, done, failed
    state,           \* the in-memory db object of the invocation
    currentPrograms, \* what fetchPrograms() returned
    newPrograms,     \* what diffPrograms() returned
    notifyCalls,     \* the argument of every notifyFn call of the invocation
    dispatchCalls,   \* the argument of every dispatchReconFn call of the invocation
    steps,           \* the steps the invocation has taken, in order
    io,              \* how often the invocation read and wrote the state file
    runs,            \* invocations started so far
    clock,           \* the wall clock, as new Date() reads it
    fileAtStart,     \* the state file as the invocation found it
    loaded,          \* what db.load returned to the invocation
    loadOk,          \* whether db.load returned the file's content (not the empty fallback)
    persistedEver,   \* ids that some completed save has written
    trusted,         \* ids written by a completed save with no fallback load since
    notifiedEver,    \* ids ever passed to notifyFn
    alertResults,    \* what notifyFn returned in this invocation: nothing yet, or one object
    silentEver,      \* ids saved by a run whose notify returned false for every channel
    \* ---- diffPrograms as a function ----
    dDb, dBatch, dOut, dPc,
    \* ---- fetchWithRetry on one URL ----
    fpc,             \* idle, request, sleep, returned, threw
    attempt,         \* the attempt parameter of the current call
    outcomes,        \* what each fetchFn call (request) of this URL produced, in order
    delays,          \* every delay slept, in order
    ferror,          \* the error that left fetchWithRetry
    \* ---- addPrograms as a function, called twice with one batch ----
    aDb,             \* the db object before the first call
    aBatch,          \* the batch of both calls
    aDiff,           \* diffPrograms(aDb, aBatch)
    aFirst,          \* the db object and the returned list after the first call
    aSecond,         \* the same after the second call
    aPc,             \* ready, once, twice
    \* ---- fetchPublicPrograms over the pages a server returns ----
    pCreds,          \* which of H1_USERNAME and H1_API_TOKEN are set
    pPc,             \* idle, start, fetching, returned, threw
    pUrl,            \* the url variable of the loop
    pAll,            \* allPrograms
    pRequests,       \* every request made: its url and whether it carried the auth header
    pPages,          \* every page body received, in order
    pError,          \* the message of the error thrown
    \* ---- chunkMessages as a function ----
    cPrograms, cMax, cOut, cPc,
    \* ---- notify(newPrograms) ----
    nInput,          \* the argument newPrograms: null, or a list of some length
    nCfg,            \* which of TELEGRAM_BOT_TOKEN, TELEGRAM_CHAT_ID, DISCORD_WEBHOOK_URL are set
    nPc,             \* idle, start, telegram, telegram sleep, discord, discord sleep, returned, threw
    nChunks,         \* the number of chunks of each channel
    nI,              \* the loop index i
    nOk,             \* telegramOk and discordOk
    nLog,            \* requests sent and delays slept, in order
    nCalls,          \* the calls of sendTelegram, sendDiscord and sleep, in order
    nResult,         \* the object returned
    \* ---- load and save on one path, the file as text ----
    sContent,        \* what is at dbPath: nothing, or a text
    sDir,            \* whether the parent directory of dbPath exists
    sDirAtStart,     \* whether it existed before any call
    sDb,             \* the db object handed to save
    sPc,             \* idle, start, saved, save failed, loaded
    sOutcome,        \* how the file system treats the save: none yet, written, interrupted, refused
    sReadError,      \* whether readFile rejected in the load
    sLoaded,         \* what load returned
    \* ---- dispatchRecon(newPrograms) ----
    rEnv,            \* AUTO_RECON, GH_PUSH_TOKEN, GITHUB_TOKEN, GITHUB_REPOSITORY
    rInput,          \* the argument newPrograms: null, or a list of some length
    rPc,             \* idle, start, requesting, returned, threw, run persists
    rRequests,       \* the requests sent
    rOutcome,        \* how the request ended
    rResult,         \* the boolean returned
    \* ---- the process entry of watcher.js: run().then(exit 0).catch(exit 1) ----
    mPc,             \* where the process is
    mDegraded,       \* the failures met that run() absorbed
    mNew,            \* newPrograms.length
    mAlert,          \* alertResult, what notify returned
    mCause,          \* what made run() reject
    mRun,            \* how the promise of run() settled
    mExit,           \* the codes passed to process.exit
    \* ---- formatTelegramEntry(p) ----
    tProgram,        \* the program p: name, handle, offers_bounties
    tPc,             \* idle, ready, done
    tOut,            \* the text returned
    \* ---- several invocations of run() on one state path ----
    xLimit,          \* how many invocations may be in progress at once
    xFile,           \* what is at dbPath
    xPc,             \* where each invocation is: idle, loaded, diffed, notified, done
    xLoaded,         \* what load returned to each invocation
    xFileAtLoad,     \* what was at dbPath when the invocation loaded
    xBatch,          \* currentPrograms of each invocation
    xNew,            \* newPrograms of each invocation
    xNotified,       \* the ids each invocation passed to notify
    xSaved,          \* the keys each invocation wrote
    xSeen,           \* the invocations in progress and done when each invocation loaded
    xFellBack,       \* whether some load answered a file with the empty state
    xClock           \* the time

runVars   == <<file, pc, state, currentPrograms, newPrograms, notifyCalls, dispatchCalls,
               steps, io, runs, clock, fileAtStart, loaded, loadOk, persistedEver, trusted,
               notifiedEver, alertResults, silentEver>>
diffVars  == <<dDb, dBatch, dOut, dPc>>
fetchVars == <<fpc, attempt, outcomes, delays, ferror>>
addVars   == <<aDb, aBatch, aDiff, aFirst, aSecond, aPc>>
pageVars  == <<pCreds, pPc, pUrl, pAll, pRequests, pPages, pError>>
chunkVars == <<cPrograms, cMax, cOut, cPc>>
notifyVars == <<nInput, nCfg, nPc, nChunks, nI, nOk, nLog, nCalls, nResult>>
storeVars == <<sContent, sDir, sDirAtStart, sDb, sPc, sOutcome, sReadError, sLoaded>>
reconVars == <<rEnv, rInput, rPc, rRequests, rOutcome, rResult>>
mainVars == <<mPc, mDegraded, mNew, mAlert, mCause, mRun, mExit>>
formatVars == <<tProgram, tPc, tOut>>
overlapVars == <<xLimit, xFile, xPc, xLoaded, xFileAtLoad, xBatch, xNew, xNotified, xSaved, xSeen, xFellBack, xClock>>
vars      == <<runVars, diffVars, fetchVars, addVars, pageVars, chunkVars, notifyVars, storeVars, reconVars, mainVars, formatVars, overlapVars>>

\* what the actions of one specification leave alone: the variables of the others
outsideRun    == <<diffVars, fetchVars, addVars, pageVars, chunkVars, notifyVars, storeVars, reconVars, mainVars, formatVars, overlapVars>>
outsideDiff   == <<runVars, fetchVars, addVars, pageVars, chunkVars, notifyVars, storeVars, reconVars, mainVars, formatVars, overlapVars>>
outsideFetch  == <<runVars, diffVars, addVars, pageVars, chunkVars, notifyVars, storeVars, reconVars, mainVars, formatVars, overlapVars>>
outsideAdd    == <<runVars, diffVars, fetchVars, pageVars, chunkVars, notifyVars, storeVars, reconVars, mainVars, formatVars, overlapVars>>
outsidePages  == <<runVars, diffVars, fetchVars, addVars, chunkVars, notifyVars, storeVars, reconVars, mainVars, formatVars, overlapVars>>
outsideChunk  == <<runVars, diffVars, fetchVars, addVars, pageVars, notifyVars, storeVars, reconVars, mainVars, formatVars, overlapVars>>
outsideNotify == <<runVars, diffVars, fetchVars, addVars, pageVars, chunkVars, storeVars, reconVars, mainVars, formatVars, overlapVars>>
outsideStore  == <<runVars, diffVars, fetchVars, addVars, pageVars, chunkVars, notifyVars, reconVars, mainVars, formatVars, overlapVars>>
outsideRecon  == <<runVars, diffVars, fetchVars, addVars, pageVars, chunkVars, notifyVars, storeVars, mainVars, formatVars, overlapVars>>
outsideMain   == <<runVars, diffVars, fetchVars, addVars, pageVars, chunkVars, notifyVars, storeVars, reconVars, formatVars, overlapVars>>
outsideFormat == <<runVars, diffVars, fetchVars, addVars, pageVars, chunkVars, notifyVars, storeVars, reconVars, mainVars, overlapVars>>
outsideOverlap== <<runVars, diffVars, fetchVars, addVars, pageVars, chunkVars, notifyVars, storeVars, reconVars, mainVars, formatVars>>

----------------------------------------------------------------------------
(* Bounds of the model *)

MaxRuns  == 3   \* invocations of run() in one behaviour
MaxBatch == 2   \* entities in one fetched batch (Spec)
MaxLen   == 3   \* entities in one batch handed to diffPrograms (SpecDiff)

----------------------------------------------------------------------------
(* Strings, ids and entities *)

Range(s) == {s[i] : i \in 1..Len(s)}

RECURSIVE Digits(_)
\* String(n) for a non-negative integer n: its decimal digits
Digits(n) == IF n < 10 THEN <<n>> ELSE Digits(n \div 10) \o <<n % 10>>

\* an id as JavaScript holds it: a number or a string
NumId(n) == [t |-> "num", n |-> n, s |-> <<>>]
StrId(s) == [t |-> "str", n |-> 0, s |-> s]

\* String(id)
String(id) == IF id.t = "num" THEN Digits(id.n) ELSE id.s

\* an environment variable: not set, or set to a text (a sequence of characters)
Unset         == [set |-> FALSE, text |-> <<>>]
EnvText(text) == [set |-> TRUE, text |-> text]

\* a normalized program object; handle stands for every attribute but the id
Program(id, handle) == [id |-> id, handle |-> handle]

----------------------------------------------------------------------------
(* src/src/db.js *)

\* a JavaScript object with no own key
EmptyObject == <<>>

\* obj[k] = v
Put(obj, k, v) == [x \in (DOMAIN obj) \cup {k} |-> IF x = k THEN v ELSE obj[x]]

\* null is the empty sequence, a timestamp t is <<t>>
Null == <<>>

createEmptyDb == [programs |-> EmptyObject, last_run |-> Null]

\* the state file: absent, a complete document written by save ("doc"), or the
\* truncated text an interrupted writeFile leaves ("partial", which JSON.parse rejects)
AbsentFile     == [kind |-> "absent",  programs |-> EmptyObject, last_run |-> Null]
PartialFile    == [kind |-> "partial", programs |-> EmptyObject, last_run |-> Null]
\* a text that JSON.parse accepts and the structure check of load does not
InvalidFile    == [kind |-> "invalid", programs |-> EmptyObject, last_run |-> Null]
DocFile(db)    == [kind |-> "doc", programs |-> db.programs, last_run |-> db.last_run]

\* load(dbPath); readError: readFile rejects (EIO, EMFILE, EACCES, ...)
load(f, readError) ==
    IF f.kind = "absent" THEN createEmptyDb                    \* existsSync false
    ELSE IF readError THEN createEmptyDb                       \* catch: 'Error loading DB'
    ELSE IF f.kind # "doc" THEN createEmptyDb                  \* JSON.parse throws, or the structure is invalid
    ELSE [programs |-> f.programs, last_run |-> f.last_run]

\* whether load(f, readError) is the file's content
loadReadsFile(f, readError) == f.kind = "doc" /\ ~readError

\* What is at dbPath, as text. top is what JSON.parse makes of the text
\* ("unparseable": it throws; "null": null, false, 0 or ""; "scalar": another
\* number, string or true; "array"; "object"); programs is what data.programs is
\* ("undefined": no such member; "scalar": a number, string or boolean; "null";
\* "array"; "object"); entries are the members of programs in the order of the
\* text (the elements of an array under their indices).
AbsentContent == [kind |-> "absent", top |-> "none", programs |-> "undefined",
                  entries |-> <<>>, last_run |-> Null]
JsonText(top, programs, entries, last_run) ==
    [kind |-> "text", top |-> top, programs |-> programs, entries |-> entries,
     last_run |-> last_run]

RECURSIVE KeyNumber(_)
\* the integer an integer-like key stands for
KeyNumber(k) == IF Len(k) = 1 THEN k[1]
                ELSE 10 * KeyNumber(SubSeq(k, 1, Len(k) - 1)) + k[Len(k)]

\* the own keys of an object in the order JSON.stringify visits them: integer-like
\* keys ascending
keyAt(obj, i) == CHOOSE k \in DOMAIN obj :
                     Cardinality({j \in DOMAIN obj : KeyNumber(j) <= KeyNumber(k)}) = i

\* a stringify that writes the first member of programs only
stringifyFirstOnly(db) ==
    JsonText("object", "object",
             [i \in 1..(IF DOMAIN db.programs = {} THEN 0 ELSE 1) |->
                 [key |-> keyAt(db.programs, i), value |-> db.programs[keyAt(db.programs, i)]]],
             db.last_run)

\* JSON.stringify(db, null, 2) + '\n'
stringify(db) ==
    JsonText("object", "object",
             [i \in 1..Cardinality(DOMAIN db.programs) |->
                 [key |-> keyAt(db.programs, i), value |-> db.programs[keyAt(db.programs, i)]]],
             db.last_run)

\* the object JSON.parse builds from the members of an object: a key written twice
\* keeps its last value
objectOf(entries) ==
    [k \in {entries[i].key : i \in 1..Len(entries)} |->
        entries[CHOOSE i \in 1..Len(entries) :
                    /\ entries[i].key = k
                    /\ \A j \in (i + 1)..Len(entries) : entries[j].key # k].value]

\* a load that returns whatever JSON.parse returned
FileOfUnvalidated(content) ==
    IF content.kind = "absent" THEN AbsentFile
    ELSE IF content.top = "unparseable" THEN PartialFile
    ELSE [kind |-> "doc", programs |-> objectOf(content.entries),
          last_run |-> content.last_run]

\* what load makes of the text: JSON.parse(raw), the structure check
\* !data || typeof data.programs !== 'object', and Object.keys(data.programs),
\* which throws on null
FileOf(content) ==
    IF content.kind = "absent" THEN AbsentFile
    ELSE IF content.top = "unparseable" THEN PartialFile
    ELSE IF content.top = "null" THEN InvalidFile
    ELSE IF content.programs \notin {"null", "array", "object"} THEN InvalidFile
    ELSE IF content.programs = "null" THEN InvalidFile
    ELSE [kind |-> "doc", programs |-> objectOf(content.entries),
          last_run |-> content.last_run]

\* a save that writes the db object as it is
stampedNot(db, now) == db

\* save(db, dbPath): the db object after db.last_run = new Date().toISOString()
stamped(db, now) == [db EXCEPT !.last_run = <<now>>]

getKnownIds(db) == DOMAIN db.programs

RECURSIVE addLoopRawId(_, _, _, _, _)
\* the loop testing knownIds.has(program.id): a numeric id is never in the Set of keys
addLoopRawId(programs, knownIds, obj, added, now) ==
    IF programs = <<>> THEN [programs |-> obj, added |-> added]
    ELSE LET program == Head(programs)
             key     == String(program.id)
         IN  IF program.id.t = "num" \/ program.id.s \notin knownIds
             THEN addLoopRawId(Tail(programs), knownIds,
                               Put(obj, key, [handle |-> program.handle, first_seen |-> now]),
                               Append(added, program), now)
             ELSE addLoopRawId(Tail(programs), knownIds, obj, added, now)

RECURSIVE addLoop(_, _, _, _, _)
\* the for loop of addPrograms; knownIds is the Set built before the loop
addLoop(programs, knownIds, obj, added, now) ==
    IF programs = <<>> THEN [programs |-> obj, added |-> added]
    ELSE LET program == Head(programs)
             key     == String(program.id)
         IN  IF key \notin knownIds
             THEN addLoop(Tail(programs), knownIds,
                          Put(obj, key, [handle |-> program.handle, first_seen |-> now]),
                          Append(added, program), now)
             ELSE addLoop(Tail(programs), knownIds, obj, added, now)

\* an addPrograms that inserts every element, known or not
addProgramsNoSkip(db, programs, now) ==
    LET r == addLoop(programs, {}, db.programs, <<>>, now)
    IN  [db |-> [db EXCEPT !.programs = r.programs], added |-> r.added]

\* an addPrograms whose loop ends after the first element
addProgramsFirstOnly(db, programs, now) ==
    LET r == addLoop(SubSeq(programs, 1, 1), getKnownIds(db), db.programs, <<>>, now)
    IN  [db |-> [db EXCEPT !.programs = r.programs], added |-> r.added]

\* addPrograms(db, programs): the mutated db and the returned list
addPrograms(db, programs, now) ==
    LET r == addLoop(programs, getKnownIds(db), db.programs, <<>>, now)
    IN  [db |-> [db EXCEPT !.programs = r.programs], added |-> r.added]

\* diffPrograms comparing the raw id with the keys: a number is never a key
diffProgramsRawId(db, current) ==
    LET knownIds == getKnownIds(db)
    IN  SelectSeq(current, LAMBDA p : p.id.t = "num" \/ p.id.s \notin knownIds)

diffPrograms(db, current) ==
    LET knownIds == getKnownIds(db)
    IN  SelectSeq(current, LAMBDA p : String(p.id) \notin knownIds)

----------------------------------------------------------------------------
(* src/src/watcher.js: run(deps), one invocation after another *)

\* the ids the catalog serves, as normalizeProgram leaves them (strings)
RunIds == {StrId(<<1>>), StrId(<<2>>), StrId(<<3>>)}

RunPrograms == {Program(id, "h") : id \in RunIds}

\* every list of at most n elements of S
SeqUpTo(S, n) == UNION {[1..k -> S] : k \in 0..n}

\* what fetchPrograms() can return
Batches == SeqUpTo(RunPrograms, MaxBatch)

\* the ids (as strings) of a list of programs
IdsOf(programs) == {String(programs[i].id) : i \in 1..Len(programs)}

\* the ids passed to notifyFn in this invocation
Notified == UNION {IdsOf(notifyCalls[i]) : i \in 1..Len(notifyCalls)}

\* the keys of the mapping a reader finds in the state file (none unless it is a document)
FileKeys(f) == IF f.kind = "doc" THEN DOMAIN f.programs ELSE {}

Running == pc \in {"loaded", "fetched", "diffed", "notified", "dispatched"}

\* before the first invocation, with f at dbPath
InitRunOn(f) ==
    /\ file = f
    /\ pc = "idle"
    /\ state = createEmptyDb
    /\ currentPrograms = <<>>
    /\ newPrograms = <<>>
    /\ notifyCalls = <<>>
    /\ dispatchCalls = <<>>
    /\ steps = <<>>
    /\ io = [reads |-> 0, writes |-> 0]
    /\ runs = 0
    /\ clock = 0
    /\ fileAtStart = f
    /\ loaded = createEmptyDb
    /\ loadOk = FALSE
    /\ persistedEver = {}
    /\ trusted = {}
    /\ notifiedEver = {}
    /\ alertResults = <<>>
    /\ silentEver = {}

\* no state file yet
InitRun == InitRunOn(AbsentFile)

\* what the first invocation can find at dbPath: nothing, or a file this program
\* did not write whose structure load rejects
InitialFiles == {AbsentFile, InvalidFile}

\* Step 1: const state = await db.load(dbPath), at the start of an invocation
LoadState(readError) ==
    /\ pc \in {"idle", "done", "failed"}
    /\ runs < MaxRuns
    /\ runs' = runs + 1
    /\ clock' = clock + 1
    /\ state' = load(file, readError)
    /\ loaded' = load(file, readError)
    /\ loadOk' = loadReadsFile(file, readError)
    /\ trusted' = IF loadReadsFile(file, readError) THEN trusted ELSE {}
    /\ fileAtStart' = file
    /\ io' = [reads |-> IF file.kind = "absent" THEN 0 ELSE 1, writes |-> 0]
    /\ steps' = <<"load">>
    /\ pc' = "loaded"
    /\ currentPrograms' = <<>>
    /\ newPrograms' = <<>>
    /\ notifyCalls' = <<>>
    /\ dispatchCalls' = <<>>
    /\ alertResults' = <<>>
    /\ UNCHANGED <<file, persistedEver, notifiedEver,
                   silentEver, outsideRun>>

\* Step 2: const currentPrograms = await fetchPrograms()
FetchOk(batch) ==
    /\ pc = "loaded"
    /\ currentPrograms' = batch
    /\ steps' = Append(steps, "fetch")
    /\ pc' = "fetched"
    /\ UNCHANGED <<file, state, newPrograms, notifyCalls, dispatchCalls, io, runs, clock,
                   fileAtStart, loaded, loadOk, persistedEver, trusted, notifiedEver,
                   alertResults, silentEver, outsideRun>>

\* a run that stamps and saves the loaded state before giving up on a failed fetch
FetchFailsAfterSaving ==
    /\ pc = "loaded"
    /\ steps' = Append(steps, "fetch")
    /\ pc' = "failed"
    /\ file' = DocFile(stamped(state, clock))
    /\ UNCHANGED <<state, currentPrograms, newPrograms, notifyCalls, dispatchCalls, io,
                   runs, clock, fileAtStart, loaded, loadOk, persistedEver, trusted, notifiedEver,
                   alertResults, silentEver, outsideRun>>

\* Step 2 rejects: missing credentials, a fatal status, exhausted retries
FetchFails ==
    /\ pc = "loaded"
    /\ steps' = Append(steps, "fetch")
    /\ pc' = "failed"
    /\ UNCHANGED <<file, state, currentPrograms, newPrograms, notifyCalls, dispatchCalls, io,
                   runs, clock, fileAtStart, loaded, loadOk, persistedEver, trusted, notifiedEver,
                   alertResults, silentEver, outsideRun>>

\* a run that reports nothing new when it starts from the fresh empty state
DiffQuietOnFreshState ==
    /\ pc = "fetched"
    /\ newPrograms' = IF state = createEmptyDb THEN <<>>
                      ELSE diffPrograms(state, currentPrograms)
    /\ steps' = Append(steps, "diff")
    /\ pc' = "diffed"
    /\ UNCHANGED <<file, state, currentPrograms, notifyCalls, dispatchCalls, io, runs, clock,
                   fileAtStart, loaded, loadOk, persistedEver, trusted, notifiedEver,
                   alertResults, silentEver, outsideRun>>

\* Step 3: const newPrograms = db.diffPrograms(state, currentPrograms)
Diff ==
    /\ pc = "fetched"
    /\ newPrograms' = diffPrograms(state, currentPrograms)
    /\ steps' = Append(steps, "diff")
    /\ pc' = "diffed"
    /\ UNCHANGED <<file, state, currentPrograms, notifyCalls, dispatchCalls, io, runs, clock,
                   fileAtStart, loaded, loadOk, persistedEver, trusted, notifiedEver,
                   alertResults, silentEver, outsideRun>>

\* what notify returns: { telegram: boolean, discord: boolean }
AlertResults == [telegram : BOOLEAN, discord : BOOLEAN]

\* a run that alerts for the first new program only
NotifyFirstOnly(throws) ==
    /\ pc = "diffed"
    /\ Len(newPrograms) # 0
    /\ notifyCalls' = Append(notifyCalls, <<Head(newPrograms)>>)
    /\ notifiedEver' = notifiedEver \cup IdsOf(<<Head(newPrograms)>>)
    /\ alertResults' \in IF throws THEN {alertResults}
                         ELSE {Append(alertResults, result) : result \in AlertResults}
    /\ steps' = Append(steps, "notify")
    /\ pc' = IF throws THEN "failed" ELSE "notified"
    /\ UNCHANGED <<file, state, currentPrograms, newPrograms, dispatchCalls, io, runs, clock,
                   fileAtStart, loaded, loadOk, persistedEver, trusted,
                   silentEver, outsideRun>>

\* Step 4: await notifyFn(newPrograms), reached only past the empty-diff return
Notify(throws) ==
    /\ pc = "diffed"
    /\ Len(newPrograms) # 0
    /\ notifyCalls' = Append(notifyCalls, newPrograms)
    /\ steps' = Append(steps, "notify")
    /\ notifiedEver' = notifiedEver \cup IdsOf(newPrograms)
    /\ alertResults' \in IF throws THEN {alertResults}
                         ELSE {Append(alertResults, result) : result \in AlertResults}
    /\ pc' = IF throws THEN "failed" ELSE "notified"
    /\ UNCHANGED <<file, state, currentPrograms, newPrograms, dispatchCalls, io, runs, clock,
                   fileAtStart, loaded, loadOk, persistedEver, trusted,
                   silentEver, outsideRun>>

\* a run that dispatches before it alerts: the dispatch takes the diff, the alert follows
SideDispatchFirst(throws) ==
    /\ pc \in {"diffed", "notified"}
    /\ Len(newPrograms) # 0
    /\ dispatchCalls' = Append(dispatchCalls, newPrograms)
    /\ steps' = Append(steps, "dispatch")
    /\ pc' = IF throws THEN "failed" ELSE IF pc = "diffed" THEN "diffed" ELSE "dispatched"
    /\ UNCHANGED <<file, state, currentPrograms, newPrograms, notifyCalls, io, runs, clock,
                   fileAtStart, loaded, loadOk, persistedEver, trusted, notifiedEver,
                   alertResults, silentEver, outsideRun>>

\* Step 5: await dispatchReconFn(newPrograms)
SideDispatch(throws) ==
    /\ pc = "notified"
    /\ dispatchCalls' = Append(dispatchCalls, newPrograms)
    /\ steps' = Append(steps, "dispatch")
    /\ pc' = IF throws THEN "failed" ELSE "dispatched"
    /\ UNCHANGED <<file, state, currentPrograms, newPrograms, notifyCalls, io, runs, clock,
                   fileAtStart, loaded, loadOk, persistedEver, trusted, notifiedEver,
                   alertResults, silentEver, outsideRun>>

SaveOutcomes == {"written", "interrupted", "refused"}

\* notify returned, with false for every channel
DeliveredNowhere ==
    alertResults # <<>> /\ ~alertResults[1].telegram /\ ~alertResults[1].discord

\* await db.save(db, dbPath): db.last_run is stamped, then writeFile replaces the
\* file. "written": writeFile completes. "interrupted": the process dies or writeFile
\* rejects after the file was truncated. "refused": mkdir or the open rejects.
save(db, outcome) ==
    /\ state' = stamped(db, clock)
    /\ steps' = Append(steps, "persist")
    /\ io' = [io EXCEPT !.writes = IF outcome = "refused" THEN @ ELSE @ + 1]
    /\ file' = CASE outcome = "written"     -> DocFile(stamped(db, clock))
                 [] outcome = "interrupted" -> PartialFile
                 [] outcome = "refused"     -> file
    /\ pc' = IF outcome = "written" THEN "done" ELSE "failed"
    /\ persistedEver' = IF outcome = "written"
                        THEN persistedEver \cup DOMAIN db.programs ELSE persistedEver
    /\ trusted' = IF outcome = "written" THEN trusted \cup DOMAIN db.programs ELSE trusted
    /\ silentEver' = IF outcome = "written" /\ DeliveredNowhere
                     THEN silentEver \cup (IdsOf(newPrograms) \cap DOMAIN db.programs)
                     ELSE silentEver
    /\ UNCHANGED <<currentPrograms, newPrograms, notifyCalls, dispatchCalls, runs, clock,
                   fileAtStart, loaded, loadOk, notifiedEver,
                   alertResults, outsideRun>>

\* a run that returns on an empty diff without saving
ReturnNoNew(outcome) ==
    /\ pc = "diffed"
    /\ Len(newPrograms) = 0
    /\ pc' = "done"
    /\ UNCHANGED <<file, state, currentPrograms, newPrograms, notifyCalls, dispatchCalls,
                   steps, io, runs, clock, fileAtStart, loaded, loadOk, persistedEver, trusted,
                   notifiedEver,
                   alertResults, silentEver, outsideRun>>

\* if (newPrograms.length === 0) { await db.save(state, dbPath); return ... }
SaveNoNew(outcome) ==
    /\ pc = "diffed"
    /\ Len(newPrograms) = 0
    /\ save(state, outcome)

\* a run that rebuilds the mapping from the current fetch, dropping what the fetch omits
AddAndSavePruning(outcome) ==
    /\ pc = "dispatched"
    /\ save(addPrograms(createEmptyDb, currentPrograms, clock).db, outcome)

\* a run that keeps the new programs out of the state when no channel took the alert
AddAndSaveIfDelivered(outcome) ==
    /\ pc = "dispatched"
    /\ save(IF DeliveredNowhere THEN state ELSE addPrograms(state, newPrograms, clock).db,
            outcome)

\* Step 6: db.addPrograms(state, newPrograms); await db.save(state, dbPath)
AddAndSave(outcome) ==
    /\ pc = "dispatched"
    /\ save(addPrograms(state, newPrograms, clock).db, outcome)

\* the process dies between two steps
Crash ==
    /\ Running
    /\ pc' = "failed"
    /\ UNCHANGED <<file, state, currentPrograms, newPrograms, notifyCalls, dispatchCalls,
                   steps, io, runs, clock, fileAtStart, loaded, loadOk, persistedEver, trusted, notifiedEver,
                   alertResults, silentEver, outsideRun>>

Next ==
    \/ \E readError \in BOOLEAN : LoadState(readError)
    \/ \E batch \in Batches : FetchOk(batch)
    \/ FetchFails
    \/ Diff
    \/ \E throws \in BOOLEAN : Notify(throws)
    \/ \E throws \in BOOLEAN : SideDispatch(throws)
    \/ \E outcome \in SaveOutcomes : SaveNoNew(outcome)
    \/ \E outcome \in SaveOutcomes : AddAndSave(outcome)
    \/ Crash

InitDiffIdle ==
    /\ dDb = createEmptyDb
    /\ dBatch = <<>>
    /\ dOut = <<>>
    /\ dPc = "idle"

InitFetchIdle ==
    /\ fpc = "idle"
    /\ attempt = 1
    /\ outcomes = <<>>
    /\ delays = <<>>
    /\ ferror = [name |-> "", status |-> 0]

InitAddIdle ==
    /\ aDb = createEmptyDb
    /\ aBatch = <<>>
    /\ aDiff = <<>>
    /\ aFirst = [db |-> createEmptyDb, added |-> <<>>]
    /\ aSecond = [db |-> createEmptyDb, added |-> <<>>]
    /\ aPc = "idle"

InitPagesIdle ==
    /\ pCreds = [username |-> "unset", token |-> "unset"]
    /\ pPc = "idle"
    /\ pUrl = ""
    /\ pAll = <<>>
    /\ pRequests = <<>>
    /\ pPages = <<>>
    /\ pError = [kind |-> "none", missing |-> <<>>]

InitChunkIdle ==
    /\ cPrograms = <<>>
    /\ cMax = 0
    /\ cOut = <<>>
    /\ cPc = "idle"

InitNotifyIdle ==
    /\ nInput = [isNull |-> TRUE, length |-> 0]
    /\ nCfg = [botToken |-> FALSE, chatId |-> FALSE, webhookUrl |-> FALSE]
    /\ nPc = "idle"
    /\ nChunks = [telegram |-> 0, discord |-> 0]
    /\ nI = 0
    /\ nOk = [telegram |-> FALSE, discord |-> FALSE]
    /\ nLog = <<>>
    /\ nCalls = <<>>
    /\ nResult = [telegram |-> FALSE, discord |-> FALSE]

InitStoreIdle ==
    /\ sContent = AbsentContent
    /\ sDir = FALSE
    /\ sDirAtStart = FALSE
    /\ sDb = createEmptyDb
    /\ sPc = "idle"
    /\ sOutcome = "none"
    /\ sReadError = FALSE
    /\ sLoaded = createEmptyDb

InitReconIdle ==
    /\ rEnv = [autoRecon |-> Unset, pushToken |-> "unset", githubToken |-> "unset", repo |-> "unset"]
    /\ rInput = [isNull |-> TRUE, length |-> 0]
    /\ rPc = "idle"
    /\ rRequests = <<>>
    /\ rOutcome = "none"
    /\ rResult = FALSE

InitMainIdle ==
    /\ mPc = "idle"
    /\ mDegraded = {}
    /\ mNew = 0
    /\ mAlert = [telegram |-> FALSE, discord |-> FALSE]
    /\ mCause = "none"
    /\ mRun = "pending"
    /\ mExit = <<>>

InitFormatIdle ==
    /\ tProgram = [name |-> <<>>, handle |-> <<>>, offers_bounties |-> FALSE]
    /\ tPc = "idle"
    /\ tOut = <<>>

InitOverlapIdle ==
    /\ xLimit = 1
    /\ xFile = AbsentFile
    /\ xPc = <<>>
    /\ xLoaded = <<>>
    /\ xFileAtLoad = <<>>
    /\ xBatch = <<>>
    /\ xNew = <<>>
    /\ xNotified = <<>>
    /\ xSaved = <<>>
    /\ xSeen = <<>>
    /\ xFellBack = FALSE
    /\ xClock = 0

\* the variables of the functions and clients checked on their own, at rest
InitOthersIdle == InitAddIdle /\ InitPagesIdle /\ InitChunkIdle /\ InitNotifyIdle
                  /\ InitStoreIdle /\ InitReconIdle /\ InitMainIdle /\ InitFormatIdle /\ InitOverlapIdle

Init == (\E f \in InitialFiles : InitRunOn(f)) /\ InitDiffIdle /\ InitFetchIdle
        /\ InitOthersIdle

Spec == Init /\ [][Next]_vars

----------------------------------------------------------------------------
(* Claims about run() *)

IsPrefix(s, t) == Len(s) <= Len(t) /\ SubSeq(t, 1, Len(s)) = s

FullPipeline  == <<"load", "fetch", "diff", "notify", "dispatch", "persist">>
ShortPipeline == <<"load", "fetch", "diff", "persist">>

\* C2 as stated: once a completed save has written an id, it is a key of the state
\* file ever after, and no later run reports it new or passes it to notify.
C2_AppendOnlyAlways ==
    /\ persistedEver \subseteq FileKeys(file)
    /\ Running => persistedEver \cap (IdsOf(newPrograms) \cup Notified) = {}

\* C2, amended: an id written by a completed save is, as long as no later load has
\* fallen back to the empty state, a key of every loaded state and of every completely
\* written state file, also when a later fetch omits it, and no such run reports it
\* new or passes it to notify.
C2_AppendOnlyWhileLoadsReadFile ==
    /\ file.kind = "doc" => trusted \subseteq FileKeys(file)
    /\ Running => /\ trusted \subseteq getKnownIds(state)
                  /\ trusted \cap (IdsOf(newPrograms) \cup Notified) = {}

\* a later run whose fetch omitted a persisted id has saved, and the id is still a key
C2_Witness ==
    /\ pc = "done"
    /\ runs >= 2
    /\ \E k \in trusted : /\ k \in FileKeys(fileAtStart)
                          /\ k \notin IdsOf(currentPrograms)
                          /\ k \in FileKeys(file)

\* C3: a run that failed or crashed before Persist has not written the state file:
\* the file is what the run found (or still absent).
C3_NoWriteBeforePersist ==
    (pc = "failed" /\ "persist" \notin Range(steps)) =>
        (file = fileAtStart /\ io.writes = 0)

\* a run died after notify, before persist, with a state file on disk
C3_Witness ==
    /\ pc = "failed"
    /\ "notify" \in Range(steps)
    /\ "persist" \notin Range(steps)
    /\ fileAtStart.kind = "doc"

\* C3 also covers a failed fetch of the first run: the file is still absent
C3_WitnessAbsent ==
    /\ pc = "failed"
    /\ steps = <<"load", "fetch">>
    /\ file.kind = "absent"

\* C4: every id a run adds to the state file was passed to notify earlier in the same
\* run, so every key of the state file has been passed to notify at some time.
C4_PersistAfterNotify ==
    /\ FileKeys(file) \ FileKeys(fileAtStart) \subseteq Notified
    /\ FileKeys(file) \subseteq notifiedEver
    /\ FileKeys(file) \ FileKeys(fileAtStart) # {} => IsPrefix(<<"load", "fetch", "diff", "notify">>, steps)

\* a run added ids to an existing state file
C4_Witness ==
    /\ pc = "done"
    /\ fileAtStart.kind = "doc"
    /\ FileKeys(file) \ FileKeys(fileAtStart) # {}

\* C9: the steps of an invocation are a prefix of Load, Fetch, Diff, Notify,
\* SideDispatch, Persist (non-empty diff) or of Load, Fetch, Diff, Persist (empty
\* diff), each at most once; the file is read at most once, in Load, and written at
\* most once, in Persist.
C9_StrictOrder ==
    /\ IsPrefix(steps, FullPipeline) \/ IsPrefix(steps, ShortPipeline)
    /\ "notify" \in Range(steps) => Len(newPrograms) # 0
    /\ "dispatch" \in Range(steps) => Len(newPrograms) # 0
    /\ steps = ShortPipeline => Len(newPrograms) = 0
    /\ Len(notifyCalls) = (IF "notify" \in Range(steps) THEN 1 ELSE 0)
    /\ Len(dispatchCalls) = (IF "dispatch" \in Range(steps) THEN 1 ELSE 0)
    /\ io.reads <= 1
    /\ io.writes <= 1
    /\ io.writes = 1 => steps[Len(steps)] = "persist"
    /\ pc = "done" => (steps \in {FullPipeline, ShortPipeline} /\ io.writes = 1)

\* a run went through all six steps
C9_Witness ==
    /\ pc = "done"
    /\ steps = FullPipeline
    /\ io = [reads |-> 1, writes |-> 1]

Advanced(old, new) == new # Null /\ (old = Null \/ old[1] < new[1])

\* C10 as stated: on an empty diff the run goes to Persist with no notify and no
\* side-dispatch, the persisted mapping is what it was, and last_run advances.
C10_EmptyDiffFileMappingUnchanged ==
    (pc = "done" /\ Len(newPrograms) = 0) =>
        /\ steps = ShortPipeline
        /\ notifyCalls = <<>>
        /\ dispatchCalls = <<>>
        /\ file.kind = "doc"
        /\ file.programs = fileAtStart.programs
        /\ Advanced(fileAtStart.last_run, file.last_run)

\* C10, amended: on an empty diff the run goes to Persist with no notify and no
\* side-dispatch, the saved mapping is exactly the mapping load returned (the file's
\* previous mapping whenever load read the file), and last_run advances.
C10_EmptyDiffSavesLoadedMapping ==
    (pc = "done" /\ Len(newPrograms) = 0) =>
        /\ steps = ShortPipeline
        /\ notifyCalls = <<>>
        /\ dispatchCalls = <<>>
        /\ file.kind = "doc"
        /\ file.programs = loaded.programs
        /\ loadOk => file.programs = fileAtStart.programs
        /\ Advanced(fileAtStart.last_run, file.last_run)

\* a run found every fetched entity known and saved
C10_Witness ==
    /\ pc = "done"
    /\ Len(newPrograms) = 0
    /\ Len(currentPrograms) # 0
    /\ loadOk
    /\ file.last_run # fileAtStart.last_run

----------------------------------------------------------------------------
(* diffPrograms on its own: SpecDiff draws a state and a batch, then applies it *)

\* batch elements: numeric and string ids of the same entity, ids that differ only
\* in their text ("01" against 1), and two objects carrying the same id
DiffPrograms ==
    { Program(NumId(1), "a"), Program(StrId(<<1>>), "a"), Program(StrId(<<1>>), "b"),
      Program(NumId(10), "a"), Program(StrId(<<0, 1>>), "a"), Program(StrId(<<2>>), "a") }

\* keys a persisted mapping may hold
DiffKeys == {<<1>>, <<1, 0>>, <<0, 1>>, <<2>>}

DbWithKeys(K) ==
    [programs |-> [k \in K |-> [handle |-> "a", first_seen |-> 0]], last_run |-> Null]

InitDiff ==
    /\ dDb \in {DbWithKeys(K) : K \in SUBSET DiffKeys}
    /\ dBatch \in SeqUpTo(DiffPrograms, MaxLen)
    /\ dOut = <<>>
    /\ dPc = "ready"

CallDiff ==
    /\ dPc = "ready"
    /\ dOut' = diffPrograms(dDb, dBatch)
    /\ dPc' = "done"
    /\ UNCHANGED <<dDb, dBatch, outsideDiff>>

DiffInit == InitRun /\ InitDiff /\ InitFetchIdle /\ InitOthersIdle

NextDiff == CallDiff

SpecDiff == DiffInit /\ [][NextDiff]_vars

\* the positions of the batch whose id is no key of the state
Unknown == {j \in 1..Len(dBatch) : String(dBatch[j].id) \notin DOMAIN dDb.programs}

\* the i-th smallest element of a set of positions
Nth(P, i) == CHOOSE j \in P : Cardinality({k \in P : k <= j}) = i

\* C1: diffPrograms(S, B) is exactly the elements of B whose id is not a key of
\* S.programs, in B's order; it is empty when every id of B is a key, and it is B
\* when S is the empty state.
C1_DiffIsUnknownSubsequence ==
    dPc = "done" =>
        /\ Len(dOut) = Cardinality(Unknown)
        /\ \A i \in 1..Len(dOut) : dOut[i] = dBatch[Nth(Unknown, i)]
        /\ (\A j \in 1..Len(dBatch) : String(dBatch[j].id) \in DOMAIN dDb.programs) => dOut = <<>>
        /\ dDb.programs = EmptyObject => dOut = dBatch

\* a batch mixing known and unknown entities, a known one held under a numeric id
C1_Witness ==
    /\ dPc = "done"
    /\ Len(dOut) = 2
    /\ Len(dBatch) = 3
    /\ \E j \in 1..Len(dBatch) : dBatch[j].id.t = "num" /\ j \notin Unknown

----------------------------------------------------------------------------
(* The HackerOne client (src/unnamed/part_003): fetchWithRetry on one URL *)

MAX_RETRIES   == 3
BASE_DELAY_MS == 1000

RECURSIVE Pow(_, _)
\* Math.pow(b, e) for a non-negative integer e
Pow(b, e) == IF e = 0 THEN 1 ELSE b * Pow(b, e - 1)

\* what one call of fetchFn can produce: a response with a status, or a thrown error
\* with a name (a network failure of fetch is a TypeError; an aborted request an
\* AbortError; a plain Error, e.g. from a custom fetchFn or agent, is an Error)
Statuses   == {200, 204, 304, 401, 404, 429, 500, 503}
ErrorNames == {"TypeError", "AbortError", "Error"}

Response(status) == [kind |-> "response", status |-> status, name |-> ""]
Thrown(name)     == [kind |-> "throw", status |-> 0, name |-> name]
Outcomes == {Response(st) : st \in Statuses} \cup {Thrown(n) : n \in ErrorNames}

NoError == [name |-> "", status |-> 0]

\* response.ok
ok(status) == status >= 200 /\ status <= 299

\* a retry branch that takes every error status for transient
retryableStatusAnyError(status) == status >= 400

\* the status test of the retry branch: response.status === 429 || response.status >= 500
retryableStatus(status) == status = 429 \/ status >= 500

\* a budget test that grants one attempt more
budgetLeftOneMore(att) == att <= MAX_RETRIES + 1

\* the budget test both retry branches share: attempt <= MAX_RETRIES
budgetLeft(att) == att <= MAX_RETRIES

\* the test of the catch branch: attempt <= MAX_RETRIES && error.name !== 'Error'
catchRetries(att, name) == budgetLeft(att) /\ name # "Error"

\* a backoff whose exponent is the attempt number
backoffFromAttempt(att) == BASE_DELAY_MS * Pow(2, att)

\* const delay = BASE_DELAY_MS * Math.pow(2, attempt - 1)
backoff(att) == BASE_DELAY_MS * Pow(2, att - 1)

\* one pass through the body of fetchWithRetry with the fetchFn outcome o: what the
\* call does next ("retry" after sleeping delay, "return" the response, "throw" error)
body(o, att) ==
    IF o.kind = "response" /\ retryableStatus(o.status) /\ budgetLeft(att)
    THEN [do |-> "retry", delay |-> backoff(att), error |-> NoError]
    ELSE IF o.kind = "response" /\ ok(o.status)
    THEN [do |-> "return", delay |-> 0, error |-> NoError]
    ELSE LET error == IF o.kind = "response"
                      THEN [name |-> "Error", status |-> o.status]   \* throw new Error(`... HTTP ${response.status}`)
                      ELSE [name |-> o.name, status |-> 0]             \* fetchFn threw
         IN  IF catchRetries(att, error.name)
             THEN [do |-> "retry", delay |-> backoff(att), error |-> NoError]
             ELSE [do |-> "throw", delay |-> 0, error |-> error]

InitFetch ==
    /\ fpc = "request"
    /\ attempt = 1
    /\ outcomes = <<>>
    /\ delays = <<>>
    /\ ferror = NoError

\* await fetchFn(url, options) and what follows it up to the sleep, return or throw
Request(o) ==
    /\ fpc = "request"
    /\ outcomes' = Append(outcomes, o)
    /\ LET b == body(o, attempt)
       IN  /\ fpc' = CASE b.do = "retry"  -> "sleep"
                       [] b.do = "return" -> "returned"
                       [] b.do = "throw"  -> "threw"
           /\ delays' = IF b.do = "retry" THEN Append(delays, b.delay) ELSE delays
           /\ ferror' = b.error
    /\ UNCHANGED <<attempt, outsideFetch>>

\* await sleep(delay); return fetchWithRetry(url, options, attempt + 1, fetchFn)
Wake ==
    /\ fpc = "sleep"
    /\ attempt' = attempt + 1
    /\ fpc' = "request"
    /\ UNCHANGED <<outcomes, delays, ferror, outsideFetch>>

FetchInit == InitRun /\ InitDiffIdle /\ InitFetch /\ InitOthersIdle

NextFetch ==
    \/ \E o \in Outcomes : Request(o)
    \/ Wake

SpecFetch == FetchInit /\ [][NextFetch]_vars

\* every await of fetchWithRetry resumes: fetchFn settles and the timer of sleep fires
SpecFetchLive == SpecFetch /\ WF_vars(NextFetch)

----------------------------------------------------------------------------
(* Claims about fetchWithRetry *)

Last(seq) == seq[Len(seq)]

TransientStatus(o) == o.kind = "response" /\ (o.status = 429 \/ o.status >= 500)

FatalStatus(o) == o.kind = "response" /\ ~(o.status >= 200 /\ o.status <= 299) /\ ~TransientStatus(o)

\* C5: when every response is 429 or 5xx, fetchWithRetry makes exactly 3 requests and
\* then raises an error carrying the last response's status.
C5_ThreeRequestsThenFatal ==
    (fpc = "threw" /\ \A i \in 1..Len(outcomes) : TransientStatus(outcomes[i])) =>
        /\ Len(outcomes) = 3
        /\ ferror.status = Last(outcomes).status

\* what does hold of the code there: MAX_RETRIES + 1 requests, the last status raised
C5_CodeMakesFourRequests ==
    (fpc = "threw" /\ \A i \in 1..Len(outcomes) : TransientStatus(outcomes[i])) =>
        /\ Len(outcomes) = MAX_RETRIES + 1
        /\ ferror.status = Last(outcomes).status

\* C6: every error thrown by the fetch call is retried with the attempt budget and the
\* backoff delays of a 429/5xx response; it propagates only once the budget is spent.
C6_EveryThrownErrorRetried ==
    /\ (fpc = "threw" /\ Last(outcomes).kind = "throw") => ~budgetLeft(attempt)
    /\ (fpc = "sleep" /\ Last(outcomes).kind = "throw") => Last(delays) = backoff(attempt)

\* C7: a response whose status is outside 2xx and is neither 429 nor 5xx ends
\* fetchWithRetry at once with an error: no request and no delay follows it, so when
\* it answers the first request exactly one request is made and no delay is taken.
C7_FatalStatusNoRetry ==
    \A i \in 1..Len(outcomes) :
        FatalStatus(outcomes[i]) =>
            /\ i = Len(outcomes)
            /\ fpc = "threw"
            /\ ferror = [name |-> "Error", status |-> outcomes[i].status]
            /\ Len(delays) = i - 1
            /\ i = attempt

\* a 404 answered the first request
C7_Witness ==
    /\ fpc = "threw"
    /\ outcomes = <<Response(404)>>
    /\ delays = <<>>

\* C8: the k-th delay, taken after attempt k failed, is 1000 * 2^(k-1) ms, whether the
\* attempt failed by status or by a thrown error.
C8_BackoffDoubles ==
    /\ IsPrefix(delays, <<1000, 2000, 4000, 8000>>)
    /\ \A k \in 1..Len(delays) : delays[k] = 1000 * 2^(k - 1)
    /\ Len(delays) = (IF fpc = "sleep" THEN attempt ELSE attempt - 1)
    /\ fpc = "sleep" => Len(outcomes) = attempt

\* three delays, the first after a status, a later one after a thrown error
C8_Witness ==
    /\ delays = <<1000, 2000, 4000>>
    /\ outcomes[1].kind = "response"
    /\ \E k \in 2..3 : outcomes[k].kind = "throw"

----------------------------------------------------------------------------
(* run(): the time stamp and the mapping a completed run leaves in the file *)

\* C11: a save that completes stamps last_run with the time of the save: once a run
\* has persisted (with or without new entities) the file's last_run is not null, is
\* the clock's reading, and is not earlier than the last_run the run found.
C11_SaveStampsLastRun ==
    pc = "done" =>
        /\ file.kind = "doc"
        /\ file.last_run # Null
        /\ file.last_run = <<clock>>
        /\ fileAtStart.last_run # Null => fileAtStart.last_run[1] <= file.last_run[1]

\* a run with new entities persisted over a file that already carried a last_run
C11_Witness ==
    /\ pc = "done"
    /\ Len(newPrograms) # 0
    /\ fileAtStart.kind = "doc"
    /\ fileAtStart.last_run # Null
    /\ file.last_run # fileAtStart.last_run

\* the positions of batch whose id is no key of db
UnknownIn(db, batch) == {j \in 1..Len(batch) : String(batch[j].id) \notin DOMAIN db.programs}

\* diff(S, B) of the loaded state and the fetched batch, in B's order
IsDiffOf(out, db, batch) ==
    /\ Len(out) = Cardinality(UnknownIn(db, batch))
    /\ \A i \in 1..Len(out) : out[i] = batch[Nth(UnknownIn(db, batch), i)]

\* what a completed run leaves: the returned list is the diff, the saved keys are
\* the loaded keys and the ids of the batch
CompletedRunEffect ==
    /\ IsDiffOf(newPrograms, loaded, currentPrograms)
    /\ file.kind = "doc"
    /\ DOMAIN file.programs = DOMAIN loaded.programs \cup IdsOf(currentPrograms)

\* C12 as stated: after a successful run the list returned is diff(S, B), it was
\* passed to notify in exactly one notify call, and the saved key set is
\* keys(S) united with the ids of B.
C12_OneNotifyCallEveryRun ==
    pc = "done" =>
        /\ CompletedRunEffect
        /\ notifyCalls = <<newPrograms>>

\* C12: after a successful run the list returned is diff(S, B) in B's order; when it
\* is not empty it was passed to notify in exactly one notify call, and when it is
\* empty notify was not called; the saved key set is keys(S) united with the ids of B.
C12_DiffNotifiedOnceAndKeysSaved ==
    pc = "done" =>
        /\ CompletedRunEffect
        /\ notifyCalls = IF Len(newPrograms) = 0 THEN <<>> ELSE <<newPrograms>>

\* a run over a non-empty loaded state whose batch mixes a known entity and a new one
C12_Witness ==
    /\ pc = "done"
    /\ loaded.programs # EmptyObject
    /\ Len(currentPrograms) = 2
    /\ Len(newPrograms) = 1
    /\ notifyCalls = <<newPrograms>>
    /\ DOMAIN file.programs # DOMAIN loaded.programs

----------------------------------------------------------------------------
(* addPrograms on its own: SpecAdd draws a state and a batch, takes the diff, and *)
(* calls addPrograms twice with the batch, at time 1 and at time 2                *)

InitAdd ==
    /\ aDb \in {DbWithKeys(K) : K \in SUBSET DiffKeys}
    /\ aBatch \in SeqUpTo(DiffPrograms, MaxLen)
    /\ aDiff = <<>>
    /\ aFirst = [db |-> createEmptyDb, added |-> <<>>]
    /\ aSecond = [db |-> createEmptyDb, added |-> <<>>]
    /\ aPc = "ready"

\* const newPrograms = diffPrograms(db, batch); const added = addPrograms(db, batch)
CallAddFirst ==
    /\ aPc = "ready"
    /\ aDiff' = diffPrograms(aDb, aBatch)
    /\ aFirst' = addPrograms(aDb, aBatch, 1)
    /\ aPc' = "once"
    /\ UNCHANGED <<aDb, aBatch, aSecond, outsideAdd>>

\* addPrograms(db, batch) again, on the db object the first call mutated
CallAddSecond ==
    /\ aPc = "once"
    /\ aSecond' = addPrograms(aFirst.db, aBatch, 2)
    /\ aPc' = "twice"
    /\ UNCHANGED <<aDb, aBatch, aDiff, aFirst, outsideAdd>>

AddInit == InitRun /\ InitDiffIdle /\ InitFetchIdle /\ InitAdd
           /\ InitPagesIdle /\ InitChunkIdle /\ InitNotifyIdle /\ InitStoreIdle /\ InitReconIdle /\ InitMainIdle /\ InitFormatIdle /\ InitOverlapIdle

NextAdd == CallAddFirst \/ CallAddSecond

SpecAdd == AddInit /\ [][NextAdd]_vars

\* the ids of the batch that are no key of the state before the first call
NewIds == IdsOf(aBatch) \ DOMAIN aDb.programs

\* the first position of the batch that carries the id k
FirstOf(k) == CHOOSE j \in 1..Len(aBatch) :
                  /\ String(aBatch[j].id) = k
                  /\ \A i \in 1..(j - 1) : String(aBatch[i].id) # k

\* C13: addPrograms is idempotent: after two calls with the same batch every new id
\* is a key whose record was written by the first call, and the second call returned
\* an empty list and left the db object as the first call left it.
C13_AddProgramsIdempotent ==
    aPc = "twice" =>
        /\ aSecond.added = <<>>
        /\ aSecond.db = aFirst.db
        /\ DOMAIN aSecond.db.programs = DOMAIN aDb.programs \cup IdsOf(aBatch)
        /\ \A k \in NewIds : aSecond.db.programs[k].first_seen = 1

\* two calls with a batch that holds new and known entities
C13_Witness ==
    /\ aPc = "twice"
    /\ Len(aFirst.added) = 2
    /\ Len(aBatch) = 3
    /\ aFirst.db # aDb
    /\ aSecond.added = <<>>

\* C14 as stated: an element whose id is already a key when the loop reaches it is
\* skipped and left out of the returned list, so the list holds one element per new
\* id; no record that exists is overwritten: the records of the state stay as they
\* were, a new id keeps the record of its first insertion, and no later call changes
\* a first_seen.
C14_NeverOverwritesARecord ==
    aPc \in {"once", "twice"} =>
        /\ \A k \in DOMAIN aDb.programs : aFirst.db.programs[k] = aDb.programs[k]
        /\ Len(aFirst.added) = Cardinality(NewIds)
        /\ \A k \in NewIds :
               aFirst.db.programs[k] = [handle |-> aBatch[FirstOf(k)].handle, first_seen |-> 1]
        /\ aPc = "twice" =>
               \A k \in DOMAIN aFirst.db.programs :
                   aSecond.db.programs[k].first_seen = aFirst.db.programs[k].first_seen

\* what does hold of addPrograms: the records the state held before the call are
\* never touched, and an element with such an id is never returned
C14_RecordsBeforeTheCallKept ==
    aPc \in {"once", "twice"} =>
        /\ \A k \in DOMAIN aDb.programs : aFirst.db.programs[k] = aDb.programs[k]
        /\ \A i \in 1..Len(aFirst.added) : String(aFirst.added[i].id) \in NewIds

\* C16: ids are compared as strings: an element whose id, written as a string, is a
\* key of the state is neither in the diff nor inserted, whether the id is a number
\* or a string, and its record is left alone; two elements with the same string form
\* of the id are either both in the diff or both out of it.
C16_IdsComparedAsStrings ==
    aPc \in {"once", "twice"} =>
        /\ \A j \in 1..Len(aBatch) :
               String(aBatch[j].id) \in DOMAIN aDb.programs =>
                   /\ aBatch[j] \notin Range(aDiff)
                   /\ aBatch[j] \notin Range(aFirst.added)
                   /\ aFirst.db.programs[String(aBatch[j].id)] = aDb.programs[String(aBatch[j].id)]
        /\ \A i, j \in 1..Len(aBatch) :
               String(aBatch[i].id) = String(aBatch[j].id) =>
                   (aBatch[i] \in Range(aDiff) <=> aBatch[j] \in Range(aDiff))
        /\ DOMAIN aFirst.db.programs = DOMAIN aDb.programs \cup IdsOf(aBatch)

\* a persisted id met as a number and as a string in one batch, next to a new id
C16_Witness ==
    /\ aPc = "once"
    /\ \E i, j \in 1..Len(aBatch) :
           /\ aBatch[i].id.t = "num"
           /\ aBatch[j].id.t = "str"
           /\ String(aBatch[i].id) = String(aBatch[j].id)
           /\ String(aBatch[i].id) \in DOMAIN aDb.programs
    /\ Len(aDiff) = 1
    /\ Len(aFirst.added) = 1

----------------------------------------------------------------------------
(* The HackerOne client (src/unnamed/part_003): fetchPublicPrograms over every *)
(* sequence of pages a server can return                                       *)

MaxPages == 2   \* pages one call fetches
MaxItems == 2   \* items in the data array of one page

\* process.env.H1_API_USERNAME / H1_API_TOKEN: not set, set to '', or set
CredValues == {"unset", "empty", "set"}

\* !value of an environment variable
missingCred(value) == value \in {"unset", "empty"}

\* a validateCredentials that reports the first missing variable only
missingNamesFirstOnly(creds) ==
    IF missingCred(creds.username) THEN <<"H1_API_USERNAME">>
    ELSE IF missingCred(creds.token) THEN <<"H1_API_TOKEN">> ELSE <<>>

\* validateCredentials: the names pushed to missing, in order
missingNames(creds) ==
    (IF missingCred(creds.username) THEN <<"H1_API_USERNAME">> ELSE <<>>)
    \o (IF missingCred(creds.token) THEN <<"H1_API_TOKEN">> ELSE <<>>)

\* items of data[]: the id as a number or as a string, the state, the handle
RawItems ==
    { [id |-> NumId(1),     state |-> "public_mode",   handle |-> "a"],
      [id |-> StrId(<<2>>), state |-> "public_mode",   handle |-> "b"],
      [id |-> NumId(2),     state |-> "soft_launched", handle |-> "b"] }

\* normalizeProgram(programData)
normalizeProgram(item) ==
    [id |-> StrId(String(item.id)), handle |-> item.handle, state |-> item.state]

\* the URLs a page can name in links.next ("" stands for an absent, null or empty
\* links.next, all of which the loop reads as no next page)
NextUrls == {"", "u1", "u2"}

\* the bodies response.json() can yield: data an array (hasData) or not, links.next
Bodies ==
    [hasData : {TRUE}, data : SeqUpTo(RawItems, MaxItems), next : NextUrls]
    \cup [hasData : {FALSE}, data : {<<>>}, next : NextUrls]

\* a loop that keeps every item of the page, whatever its state
retainedAll(page) ==
    IF page.hasData
    THEN [i \in 1..Len(page.data) |-> normalizeProgram(page.data[i])]
    ELSE <<>>

\* the programs one page adds to allPrograms: the items of data[] whose state is
\* 'public_mode', normalized, in the order of data[]
retained(page) ==
    IF page.hasData
    THEN SelectSeq([i \in 1..Len(page.data) |-> normalizeProgram(page.data[i])],
                   LAMBDA program : program.state = "public_mode")
    ELSE <<>>

InitPages ==
    /\ pCreds \in [username : CredValues, token : CredValues]
    /\ pPc = "start"
    /\ pUrl = ""
    /\ pAll = <<>>
    /\ pRequests = <<>>
    /\ pPages = <<>>
    /\ pError = [kind |-> "none", missing |-> <<>>]

\* validateCredentials(), buildAuthHeader, allPrograms = [], url = the base URL
PStart ==
    /\ pPc = "start"
    /\ IF missingNames(pCreds) # <<>>
       THEN /\ pPc' = "threw"
            /\ pError' = [kind |-> "credentials", missing |-> missingNames(pCreds)]
            /\ UNCHANGED pUrl
       ELSE /\ pPc' = "fetching"
            /\ pUrl' = "base"
            /\ UNCHANGED pError
    /\ UNCHANGED <<pCreds, pAll, pRequests, pPages, outsidePages>>

\* a loop that returns after its first page, whatever links.next says
PPageStopsAfterFirst(page) ==
    /\ pPc = "fetching"
    /\ Len(pRequests) < MaxPages
    /\ pRequests' = Append(pRequests, [url |-> pUrl, authorization |-> TRUE])
    /\ pPages' = Append(pPages, page)
    /\ pAll' = pAll \o retained(page)
    /\ pUrl' = page.next
    /\ pPc' = "returned"
    /\ UNCHANGED <<pCreds, pError, outsidePages>>

\* one turn of while (url): the request, response.json(), the for loop, url = next
PPage(page) ==
    /\ pPc = "fetching"
    /\ Len(pRequests) < MaxPages
    /\ pRequests' = Append(pRequests, [url |-> pUrl, authorization |-> TRUE])
    /\ pPages' = Append(pPages, page)
    /\ pAll' = pAll \o retained(page)
    /\ pUrl' = page.next
    /\ pPc' = IF page.next = "" THEN "returned" ELSE "fetching"
    /\ UNCHANGED <<pCreds, pError, outsidePages>>

\* one turn of while (url) in which fetchWithRetry or response.json() throws
PPageFails ==
    /\ pPc = "fetching"
    /\ Len(pRequests) < MaxPages
    /\ pRequests' = Append(pRequests, [url |-> pUrl, authorization |-> TRUE])
    /\ pPc' = "threw"
    /\ pError' = [kind |-> "request", missing |-> <<>>]
    /\ UNCHANGED <<pCreds, pUrl, pAll, pPages, outsidePages>>

\* run(): await fetchPrograms() rejected; run has no catch, so the rejection is its
\* own and the diff, notify and save that follow a returned list are not reached
PRunRejects ==
    /\ pPc = "threw"
    /\ pPc' = "run rejected"
    /\ UNCHANGED <<pCreds, pUrl, pAll, pRequests, pPages, pError, outsidePages>>

PagesInit == InitRun /\ InitDiffIdle /\ InitFetchIdle /\ InitAddIdle /\ InitPages
             /\ InitChunkIdle /\ InitNotifyIdle /\ InitStoreIdle /\ InitReconIdle /\ InitMainIdle /\ InitFormatIdle /\ InitOverlapIdle

NextPages ==
    \/ PStart
    \/ \E page \in Bodies : PPage(page)
    \/ PPageFails
    \/ PRunRejects

SpecPages == PagesInit /\ [][NextPages]_vars

\* C15 as stated: no id occurs twice in the batch fetchPublicPrograms returns,
\* whatever pages the server returns.
C15_BatchIdsUnique ==
    pPc = "returned" =>
        \A i, j \in 1..Len(pAll) : i # j => pAll[i].id # pAll[j].id

\* what the batch is: every retained item of every page, repeated ids included
C15_BatchKeepsRepeatedIds ==
    pPc = "returned" =>
        \A k \in 1..Len(pPages) : \A i \in 1..Len(retained(pPages[k])) :
            Cardinality({j \in 1..Len(pAll) : pAll[j] = retained(pPages[k])[i]})
                >= Cardinality({j \in 1..Len(retained(pPages[k])) :
                                    retained(pPages[k])[j] = retained(pPages[k])[i]})

----------------------------------------------------------------------------
(* The alerter (src/unnamed/part_001): chunkMessages on its own. A message is *)
(* the sequence of its UTF-16 code units, so Len is JavaScript's .length       *)

MaxEntries == 4   \* programs in one list handed to chunkMessages

\* the bell emoji, two code units, and the em dash, one
Bell   == <<"bell-hi", "bell-lo">>
EmDash == <<"em-dash">>

\* '\n\n'
BlankLine == <<"\n", "\n">>

DigitChar == <<"0", "1", "2", "3", "4", "5", "6", "7", "8", "9">>

\* `${n}` for a non-negative integer n
Decimal(n) == [i \in 1..Len(Digits(n)) |-> DigitChar[Digits(n)[i] + 1]]

TextNewHackerOneProgram == <<" ", "n", "e", "w", " ", "H", "a", "c", "k", "e", "r", "O", "n", "e", " ", "p", "r", "o", "g", "r", "a", "m">>
TextDetected            == <<" ", "d", "e", "t", "e", "c", "t", "e", "d", "!">>
TextNewProgramsPart     == <<" ", "n", "e", "w", " ", "p", "r", "o", "g", "r", "a", "m", "s", " ", "(", "p", "a", "r", "t", " ">>
TextPartEnd             == <<")", ":">>

\* the single-message header for n programs
singleHeader(headerPrefix, n) ==
    Bell \o <<" ">> \o headerPrefix \o <<" ">> \o EmDash \o <<" ">> \o Decimal(n)
    \o TextNewHackerOneProgram \o (IF n > 1 THEN <<"s">> ELSE <<>>) \o TextDetected

\* the header of chunk number part of a list of n programs
partHeader(headerPrefix, n, part) ==
    Bell \o <<" ">> \o headerPrefix \o <<" ">> \o EmDash \o <<" ">> \o Decimal(n)
    \o TextNewProgramsPart \o Decimal(part) \o TextPartEnd

RECURSIVE join(_)
\* entries.join('\n\n')
join(entries) ==
    IF entries = <<>> THEN <<>>
    ELSE IF Len(entries) = 1 THEN entries[1]
    ELSE entries[1] \o BlankLine \o join(Tail(entries))

\* `${header}\n\n${entries.join('\n\n')}`
message(header, entries) == header \o BlankLine \o join(entries)

\* a projection that leaves the chunk header out
projectedLengthNoHeader(headerLength, currentLength, separatorLength, entryLength) ==
    currentLength + separatorLength + entryLength

\* a projection that leaves the separator out
projectedLengthNoSeparator(headerLength, currentLength, separatorLength, entryLength) ==
    headerLength + currentLength + entryLength

\* chunkHeader.length + currentLength + separatorLength + entry.length
projectedLength(headerLength, currentLength, separatorLength, entryLength) ==
    headerLength + currentLength + separatorLength + entryLength

\* a test that sends a message of exactly maxLength to the chunk loop
fitsStrictly(text, maxLength) == Len(text) < maxLength

\* singleMessage.length <= maxLength
fits(text, maxLength) == Len(text) <= maxLength

RECURSIVE chunkLoopLosing(_, _, _, _, _, _, _)
\* a loop that, on closing a chunk, starts the next one empty
chunkLoopLosing(entries, headerPrefix, n, maxLength, chunks, currentEntries, currentLength) ==
    IF entries = <<>>
    THEN IF Len(currentEntries) > 0
         THEN Append(chunks, message(partHeader(headerPrefix, n, Len(chunks) + 1), currentEntries))
         ELSE chunks
    ELSE LET entry == Head(entries)
             chunkHeader == partHeader(headerPrefix, n, Len(chunks) + 1) \o BlankLine
             separatorLength == IF Len(currentEntries) > 0 THEN 2 ELSE 0
             projected == projectedLength(Len(chunkHeader), currentLength, separatorLength, Len(entry))
             close == projected > maxLength /\ Len(currentEntries) > 0
         IN  IF close
             THEN chunkLoopLosing(Tail(entries), headerPrefix, n, maxLength,
                      Append(chunks, message(partHeader(headerPrefix, n, Len(chunks) + 1), currentEntries)),
                      <<>>, 0)
             ELSE chunkLoopLosing(Tail(entries), headerPrefix, n, maxLength, chunks,
                      Append(currentEntries, entry),
                      currentLength + (IF Len(currentEntries) > 0 THEN 2 ELSE 0) + Len(entry))

RECURSIVE chunkLoopClosingEmpty(_, _, _, _, _, _, _)
\* a loop that closes the current chunk on a long projection even when it is empty
chunkLoopClosingEmpty(entries, headerPrefix, n, maxLength, chunks, currentEntries, currentLength) ==
    IF entries = <<>>
    THEN IF Len(currentEntries) > 0
         THEN Append(chunks, message(partHeader(headerPrefix, n, Len(chunks) + 1), currentEntries))
         ELSE chunks
    ELSE LET entry == Head(entries)
             chunkHeader == partHeader(headerPrefix, n, Len(chunks) + 1) \o BlankLine
             separatorLength == IF Len(currentEntries) > 0 THEN 2 ELSE 0
             projected == projectedLength(Len(chunkHeader), currentLength, separatorLength, Len(entry))
             close == projected > maxLength
             chunks1 == IF close
                        THEN Append(chunks, message(partHeader(headerPrefix, n, Len(chunks) + 1),
                                                    currentEntries))
                        ELSE chunks
             entries1 == Append(IF close THEN <<>> ELSE currentEntries, entry)
             length1  == (IF close THEN 0 ELSE currentLength)
                         + (IF Len(entries1) > 1 THEN 2 ELSE 0) + Len(entry)
         IN  chunkLoopClosingEmpty(Tail(entries), headerPrefix, n, maxLength, chunks1, entries1, length1)

RECURSIVE chunkLoop(_, _, _, _, _, _, _)
\* for (const entry of allEntries) { ... } and the push of the last chunk after it
chunkLoop(entries, headerPrefix, n, maxLength, chunks, currentEntries, currentLength) ==
    IF entries = <<>>
    THEN IF Len(currentEntries) > 0
         THEN Append(chunks, message(partHeader(headerPrefix, n, Len(chunks) + 1), currentEntries))
         ELSE chunks
    ELSE LET entry == Head(entries)
             chunkHeader == partHeader(headerPrefix, n, Len(chunks) + 1) \o BlankLine
             separatorLength == IF Len(currentEntries) > 0 THEN 2 ELSE 0
             projected == projectedLength(Len(chunkHeader), currentLength, separatorLength, Len(entry))
             close == projected > maxLength /\ Len(currentEntries) > 0
             chunks1 == IF close
                        THEN Append(chunks, message(partHeader(headerPrefix, n, Len(chunks) + 1),
                                                    currentEntries))
                        ELSE chunks
             entries1 == Append(IF close THEN <<>> ELSE currentEntries, entry)
             length1  == (IF close THEN 0 ELSE currentLength)
                         + (IF Len(entries1) > 1 THEN 2 ELSE 0) + Len(entry)
         IN  chunkLoop(Tail(entries), headerPrefix, n, maxLength, chunks1, entries1, length1)

\* the entryFormatter of the calls checked here: a bullet and the program's name
entryFormatter(program) == <<"*", " ">> \o program.name

\* programs.map(entryFormatter)
allEntries(programs) == [i \in 1..Len(programs) |-> entryFormatter(programs[i])]

\* `${singleHeader}\n\n${allEntries.join('\n\n')}`
singleMessage(programs, headerPrefix) ==
    message(singleHeader(headerPrefix, Len(programs)), allEntries(programs))

\* chunkMessages(programs, entryFormatter, headerPrefix, maxLength)
chunkMessages(programs, headerPrefix, maxLength) ==
    IF Len(programs) = 0 THEN <<>>
    ELSE IF fits(singleMessage(programs, headerPrefix), maxLength)
         THEN <<singleMessage(programs, headerPrefix)>>
         ELSE chunkLoop(allEntries(programs), headerPrefix, Len(programs), maxLength,
                        <<>>, <<>>, 0)

\* the headerPrefix of the calls checked here
ChunkPrefix == <<"h", "1">>

\* programs whose entries are 3, 8 and 20 code units long
ChunkPrograms ==
    { [name |-> <<"a">>],
      [name |-> [i \in 1..6 |-> "b"]],
      [name |-> [i \in 1..18 |-> "c"]] }

\* the maxLength of the calls checked here
MaxLengths == {45, 57}

InitChunk ==
    /\ cPrograms \in SeqUpTo(ChunkPrograms, MaxEntries)
    /\ cMax \in MaxLengths
    /\ cOut = <<>>
    /\ cPc = "ready"

CallChunk ==
    /\ cPc = "ready"
    /\ cOut' = chunkMessages(cPrograms, ChunkPrefix, cMax)
    /\ cPc' = "done"
    /\ UNCHANGED <<cPrograms, cMax, outsideChunk>>

ChunkInit == InitRun /\ InitDiffIdle /\ InitFetchIdle /\ InitAddIdle /\ InitPagesIdle
             /\ InitChunk /\ InitNotifyIdle /\ InitStoreIdle /\ InitReconIdle /\ InitMainIdle /\ InitFormatIdle /\ InitOverlapIdle

NextChunk == CallChunk

SpecChunk == ChunkInit /\ [][NextChunk]_vars

RECURSIVE splitAt(_, _)
\* text.split('\n\n'), piece being the part of the current piece already read
splitAt(text, piece) ==
    IF text = <<>> THEN <<piece>>
    ELSE IF Len(text) >= 2 /\ text[1] = "\n" /\ text[2] = "\n"
         THEN <<piece>> \o splitAt(SubSeq(text, 3, Len(text)), <<>>)
         ELSE splitAt(Tail(text), Append(piece, Head(text)))

\* the header of a chunk and its entries, read back from its text
HeaderOf(chunk)  == Head(splitAt(chunk, <<>>))
EntriesOf(chunk) == Tail(splitAt(chunk, <<>>))

RECURSIVE Flatten(_)
Flatten(lists) == IF lists = <<>> THEN <<>> ELSE Head(lists) \o Flatten(Tail(lists))

\* the numbers a chunk of this call can carry in its header
Parts == 1..Len(cPrograms)

\* every rendered entry is shorter than maxLength
EntriesShorterThanMax ==
    \A i \in 1..Len(cPrograms) : Len(allEntries(cPrograms)[i]) < cMax

\* every rendered entry fits in a chunk of its own: part header, blank line, entry
EntriesFitWithHeader ==
    \A i \in 1..Len(cPrograms) : \A part \in Parts :
        Len(partHeader(ChunkPrefix, Len(cPrograms), part)) + 2
            + Len(allEntries(cPrograms)[i]) <= cMax

NoChunkExceedsMax == \A k \in 1..Len(cOut) : Len(cOut[k]) <= cMax

C18_ChunksReproduceEntries ==
    cPc = "done" =>
        Flatten([k \in 1..Len(cOut) |-> EntriesOf(cOut[k])]) = allEntries(cPrograms)

\* three chunks out of four entries that are not all alike
C18_Witness ==
    /\ cPc = "done"
    /\ Len(cPrograms) = 4
    /\ Len(cOut) = 3
    /\ Cardinality(Range(cPrograms)) >= 2

IsSingle == cOut = <<singleMessage(cPrograms, ChunkPrefix)>>

\* some chunk carries a part-numbered header
IsSplit ==
    \E k \in 1..Len(cOut) : \E part \in Parts :
        HeaderOf(cOut[k]) = partHeader(ChunkPrefix, Len(cPrograms), part)

\* C19 as stated: when the single message (header and all entries) is at most
\* maxLength it is returned as the only chunk; part-numbered chunks are returned
\* only when it is longer.
C19_SingleMessageWheneverItFits ==
    cPc = "done" =>
        /\ Len(singleMessage(cPrograms, ChunkPrefix)) <= cMax => IsSingle
        /\ IsSplit => Len(singleMessage(cPrograms, ChunkPrefix)) > cMax

\* C19: for a list that is not empty, when the single message is at most maxLength
\* it is returned as the only chunk, and part-numbered chunks are returned only
\* when it is longer; for the empty list nothing is returned.
C19_SingleMessageWhenItFitsAndListNotEmpty ==
    cPc = "done" =>
        /\ (Len(cPrograms) > 0 /\ Len(singleMessage(cPrograms, ChunkPrefix)) <= cMax) => IsSingle
        /\ IsSplit => Len(singleMessage(cPrograms, ChunkPrefix)) > cMax
        /\ Len(cPrograms) = 0 => cOut = <<>>

\* two entries whose single message is exactly maxLength long
C19_Witness ==
    /\ cPc = "done"
    /\ Len(cPrograms) = 2
    /\ Len(singleMessage(cPrograms, ChunkPrefix)) = cMax
    /\ IsSingle

----------------------------------------------------------------------------
(* The alerter (src/unnamed/part_001): notify(newPrograms), every outcome of *)
(* every request                                                             *)

MaxNotified == 2     \* programs in the list handed to notify
PacingDelayMs == 500 \* await sleep(500) between two chunks of a channel

\* the argument of notify
NullInput     == [isNull |-> TRUE, length |-> 0]
ListInput(n)  == [isNull |-> FALSE, length |-> n]
NotifyInputs  == {NullInput} \cup {ListInput(n) : n \in 0..MaxNotified}

\* what fetchFn can produce for one POST
NotifyOutcomes == {Response(200), Response(204), Response(429), Thrown("TypeError")}

\* a guard that lets every argument through
emptyInputNever(input) == FALSE

\* !newPrograms || newPrograms.length === 0
emptyInput(input) == input.isNull \/ input.length = 0

\* how many chunks chunkMessages can return for a list of n programs: none for an
\* empty list, otherwise at least one and at most one per program
ChunkCounts(n) == IF n = 0 THEN {0} ELSE 1..n

\* a sendTelegram that only asks for the bot token
telegramConfiguredTokenOnly == nCfg.botToken

\* sendTelegram: !botToken || !chatId;  sendDiscord: !webhookUrl
telegramConfigured == nCfg.botToken /\ nCfg.chatId
discordConfigured  == nCfg.webhookUrl

\* what sendTelegram returns for an outcome of its request
telegramSent(o) == o.kind = "response" /\ ok(o.status)

\* what sendDiscord returns for an outcome of its request
discordSent(o) == o.kind = "response" /\ (ok(o.status) \/ o.status = 204)

RequestTo(channel, i) == [kind |-> "request", channel |-> channel, chunk |-> i, ms |-> 0]
Slept(channel, ms)    == [kind |-> "sleep", channel |-> channel, chunk |-> 0, ms |-> ms]

\* how the request of one send ended: a 2xx response, another status, a thrown error
transport(o) == IF o.kind = "throw" THEN "thrown"
                ELSE IF ok(o.status) THEN "ok" ELSE "status"

\* one call of sendTelegram or sendDiscord with chunk i: how its request ended
\* ("skipped" when the channel is not configured) and the boolean it returned
Sent(channel, i, how, result) ==
    [kind |-> "send", channel |-> channel, chunk |-> i, how |-> how, result |-> result,
     ms |-> 0]

\* one await sleep(ms) after chunk i of a channel
Paused(channel, i, ms) ==
    [kind |-> "sleep", channel |-> channel, chunk |-> i, how |-> "slept", result |-> TRUE,
     ms |-> ms]

InitNotify ==
    /\ nInput \in NotifyInputs
    /\ nCfg \in [botToken : BOOLEAN, chatId : BOOLEAN, webhookUrl : BOOLEAN]
    /\ nPc = "start"
    /\ nChunks = [telegram |-> 0, discord |-> 0]
    /\ nI = 0
    /\ nOk = [telegram |-> FALSE, discord |-> FALSE]
    /\ nLog = <<>>
    /\ nCalls = <<>>
    /\ nResult = [telegram |-> FALSE, discord |-> FALSE]

\* the early return; otherwise the two chunkMessages calls (which throw on null:
\* programs.length) and telegramOk = telegramChunks.length > 0
NStart ==
    /\ nPc = "start"
    /\ IF emptyInput(nInput)
       THEN /\ nPc' = "returned"
            /\ nResult' = [telegram |-> FALSE, discord |-> FALSE]
            /\ UNCHANGED <<nChunks, nOk>>
       ELSE IF nInput.isNull
       THEN /\ nPc' = "threw"
            /\ UNCHANGED <<nChunks, nOk, nResult>>
       ELSE /\ \E t \in ChunkCounts(nInput.length), d \in ChunkCounts(nInput.length) :
                   nChunks' = [telegram |-> t, discord |-> d]
            /\ nOk' = [telegram |-> nChunks'.telegram > 0, discord |-> FALSE]
            /\ nPc' = "telegram"
            /\ UNCHANGED nResult
    /\ UNCHANGED <<nInput, nCfg, nI, nLog, nCalls, outsideNotify>>

\* a Telegram loop that gives the channel up at its first failed send
NSendTelegramAborting(o) ==
    /\ nPc = "telegram"
    /\ nI < nChunks.telegram
    /\ nLog' = IF telegramConfigured THEN Append(nLog, RequestTo("telegram", nI)) ELSE nLog
    /\ nCalls' = Append(nCalls, Sent("telegram", nI, IF telegramConfigured THEN transport(o)
                                                    ELSE "skipped",
                                    telegramConfigured /\ telegramSent(o)))
    /\ nOk' = IF telegramConfigured /\ telegramSent(o) THEN nOk
              ELSE [nOk EXCEPT !.telegram = FALSE]
    /\ IF ~(telegramConfigured /\ telegramSent(o))
       THEN nPc' = "telegram" /\ nI' = nChunks.telegram
       ELSE IF nI < nChunks.telegram - 1
       THEN nPc' = "telegram sleep" /\ UNCHANGED nI
       ELSE nPc' = "telegram" /\ nI' = nI + 1
    /\ UNCHANGED <<nInput, nCfg, nChunks, nResult, outsideNotify>>

\* const ok = await sendTelegram(telegramChunks[i], deps); if (!ok) telegramOk = false
NSendTelegram(o) ==
    /\ nPc = "telegram"
    /\ nI < nChunks.telegram
    /\ nLog' = IF telegramConfigured THEN Append(nLog, RequestTo("telegram", nI)) ELSE nLog
    /\ nCalls' = Append(nCalls, Sent("telegram", nI, IF telegramConfigured THEN transport(o)
                                                    ELSE "skipped",
                                    telegramConfigured /\ telegramSent(o)))
    /\ nOk' = IF telegramConfigured /\ telegramSent(o) THEN nOk
              ELSE [nOk EXCEPT !.telegram = FALSE]
    /\ IF nI < nChunks.telegram - 1
       THEN nPc' = "telegram sleep" /\ UNCHANGED nI
       ELSE nPc' = "telegram" /\ nI' = nI + 1
    /\ UNCHANGED <<nInput, nCfg, nChunks, nResult, outsideNotify>>

\* the end of the Telegram loop; discordOk = discordChunks.length > 0
NTelegramDone ==
    /\ nPc = "telegram"
    /\ nI >= nChunks.telegram
    /\ nPc' = "discord"
    /\ nI' = 0
    /\ nOk' = [nOk EXCEPT !.discord = nChunks.discord > 0]
    /\ UNCHANGED <<nInput, nCfg, nChunks, nLog, nCalls, nResult, outsideNotify>>

\* a sendDiscord without its catch: a thrown network error leaves notify
NSendDiscordThrowing(o) ==
    /\ nPc = "discord"
    /\ nI < nChunks.discord
    /\ nLog' = IF discordConfigured THEN Append(nLog, RequestTo("discord", nI)) ELSE nLog
    /\ nCalls' = Append(nCalls, Sent("discord", nI, IF discordConfigured THEN transport(o)
                                                   ELSE "skipped",
                                    discordConfigured /\ discordSent(o)))
    /\ nOk' = IF discordConfigured /\ discordSent(o) THEN nOk
              ELSE [nOk EXCEPT !.discord = FALSE]
    /\ IF discordConfigured /\ o.kind = "throw"
       THEN nPc' = "threw" /\ UNCHANGED nI
       ELSE IF nI < nChunks.discord - 1
       THEN nPc' = "discord sleep" /\ UNCHANGED nI
       ELSE nPc' = "discord" /\ nI' = nI + 1
    /\ UNCHANGED <<nInput, nCfg, nChunks, nResult, outsideNotify>>

\* const ok = await sendDiscord(discordChunks[i], deps); if (!ok) discordOk = false
NSendDiscord(o) ==
    /\ nPc = "discord"
    /\ nI < nChunks.discord
    /\ nLog' = IF discordConfigured THEN Append(nLog, RequestTo("discord", nI)) ELSE nLog
    /\ nCalls' = Append(nCalls, Sent("discord", nI, IF discordConfigured THEN transport(o)
                                                   ELSE "skipped",
                                    discordConfigured /\ discordSent(o)))
    /\ nOk' = IF discordConfigured /\ discordSent(o) THEN nOk
              ELSE [nOk EXCEPT !.discord = FALSE]
    /\ IF nI < nChunks.discord - 1
       THEN nPc' = "discord sleep" /\ UNCHANGED nI
       ELSE nPc' = "discord" /\ nI' = nI + 1
    /\ UNCHANGED <<nInput, nCfg, nChunks, nResult, outsideNotify>>

\* a loop without its pacing delay
NSleepSkipped ==
    /\ nPc \in {"telegram sleep", "discord sleep"}
    /\ nPc' = IF nPc = "telegram sleep" THEN "telegram" ELSE "discord"
    /\ nI' = nI + 1
    /\ UNCHANGED <<nInput, nCfg, nChunks, nOk, nLog, nCalls, nResult, outsideNotify>>

\* if (i < chunks.length - 1) await sleep(500); i++
NSleep ==
    /\ nPc \in {"telegram sleep", "discord sleep"}
    /\ nLog' = Append(nLog, Slept(IF nPc = "telegram sleep" THEN "telegram" ELSE "discord",
                                  PacingDelayMs))
    /\ nCalls' = Append(nCalls, Paused(IF nPc = "telegram sleep" THEN "telegram" ELSE "discord",
                                      nI, PacingDelayMs))
    /\ nPc' = IF nPc = "telegram sleep" THEN "telegram" ELSE "discord"
    /\ nI' = nI + 1
    /\ UNCHANGED <<nInput, nCfg, nChunks, nOk, nResult, outsideNotify>>

\* return { telegram: telegramOk, discord: discordOk }
NReturn ==
    /\ nPc = "discord"
    /\ nI >= nChunks.discord
    /\ nPc' = "returned"
    /\ nResult' = nOk
    /\ UNCHANGED <<nInput, nCfg, nChunks, nI, nOk, nLog, nCalls, outsideNotify>>

NotifyInit == InitRun /\ InitDiffIdle /\ InitFetchIdle /\ InitAddIdle /\ InitPagesIdle
              /\ InitChunkIdle /\ InitNotify /\ InitStoreIdle /\ InitReconIdle /\ InitMainIdle /\ InitFormatIdle /\ InitOverlapIdle

NextNotify ==
    \/ NStart
    \/ \E o \in NotifyOutcomes : NSendTelegram(o)
    \/ NTelegramDone
    \/ \E o \in NotifyOutcomes : NSendDiscord(o)
    \/ NSleep
    \/ NReturn

SpecNotify == NotifyInit /\ [][NextNotify]_vars

\* C20: notify called with null or with an empty list returns false for both
\* channels, and sends no request and sleeps no pacing delay on the way.
C20_EmptyOrNullNotifiesNothing ==
    (nInput.isNull \/ nInput.length = 0) =>
        /\ nPc \in {"start", "returned"}
        /\ nLog = <<>>
        /\ nPc = "returned" => nResult = [telegram |-> FALSE, discord |-> FALSE]

\* notify(null) has returned, with both channels configured
C20_Witness ==
    /\ nPc = "returned"
    /\ nInput.isNull
    /\ telegramConfigured
    /\ discordConfigured
    /\ nResult = [telegram |-> FALSE, discord |-> FALSE]

\* the calls of sendTelegram (or of sendDiscord) that notify has made, in order
SendsOf(channel) == SelectSeq(nCalls, LAMBDA c : c.kind = "send" /\ c.channel = channel)

Channels == {"telegram", "discord"}

\* C21: when notify returns, each channel has had one send call per chunk, chunk
\* 0 first and no chunk left out whatever the earlier sends returned, and the
\* channel's result is true exactly when it had chunks and every one of these
\* calls returned true.
C21_EveryChunkAttemptedResultIsConjunction ==
    nPc = "returned" =>
        \A ch \in Channels :
            /\ Len(SendsOf(ch)) = nChunks[ch]
            /\ \A i \in 1..Len(SendsOf(ch)) : SendsOf(ch)[i].chunk = i - 1
            /\ nResult[ch] = (/\ nChunks[ch] > 0
                              /\ \A i \in 1..Len(SendsOf(ch)) : SendsOf(ch)[i].result)

\* notify has returned after two Telegram chunks: the first send got a 429, the
\* second was still made and succeeded, and the Telegram result is false
C21_Witness ==
    /\ nPc = "returned"
    /\ telegramConfigured
    /\ Len(SendsOf("telegram")) = 2
    /\ SendsOf("telegram")[1].how = "status"
    /\ SendsOf("telegram")[2].how = "ok"
    /\ SendsOf("telegram")[2].result
    /\ ~nResult.telegram

\* a send whose request got a non-2xx status or threw
TransportFailure(c) == c.kind = "send" /\ c.how \in {"status", "thrown"}

\* C22: a request that is answered with a non-2xx status or that throws never
\* makes notify throw: the send call it belongs to returns false, and when notify
\* returns, the other channel has still had one send call per chunk.
C22_TransportFailuresBecomeFalse ==
    /\ nPc # "threw"
    /\ \A i \in 1..Len(nCalls) : TransportFailure(nCalls[i]) => ~nCalls[i].result
    /\ nPc = "returned" =>
           \A ch \in Channels :
               (\E i \in 1..Len(SendsOf(ch)) : TransportFailure(SendsOf(ch)[i])) =>
                   \A other \in Channels \ {ch} : Len(SendsOf(other)) = nChunks[other]

\* notify has returned a result although the Telegram request threw and a later
\* Discord request was answered 429; the Discord chunk after it was still sent
C22_Witness ==
    /\ nPc = "returned"
    /\ \E i \in 1..Len(SendsOf("telegram")) : SendsOf("telegram")[i].how = "thrown"
    /\ Len(SendsOf("discord")) = 2
    /\ SendsOf("discord")[1].how = "status"
    /\ SendsOf("discord")[2].how = "ok"
    /\ nResult = [telegram |-> FALSE, discord |-> FALSE]

\* the requests that went out to a channel, in order
RequestsTo(channel) == SelectSeq(nLog, LAMBDA r : r.kind = "request" /\ r.channel = channel)

\* the environment holds what the channel needs: both TELEGRAM_BOT_TOKEN and
\* TELEGRAM_CHAT_ID, or DISCORD_WEBHOOK_URL
HasCredentials(channel) == IF channel = "telegram" THEN nCfg.botToken /\ nCfg.chatId
                           ELSE nCfg.webhookUrl

\* C23: a channel that lacks a credential or its URL never has a request sent, at
\* any point and for any number of chunks, and its result is false; when notify
\* returns, a channel that has what it needs has had one request per chunk,
\* whatever the other channel lacks.
C23_UnconfiguredChannelSkipped ==
    \A ch \in Channels :
        /\ ~HasCredentials(ch) =>
               /\ RequestsTo(ch) = <<>>
               /\ nPc = "returned" => ~nResult[ch]
        /\ HasCredentials(ch) /\ nPc = "returned" =>
               Len(RequestsTo(ch)) = nChunks[ch]

\* notify has returned with the bot token set and the chat id missing: Telegram
\* had two chunks and no request, Discord had its two requests and succeeded
C23_Witness ==
    /\ nPc = "returned"
    /\ nCfg.botToken /\ ~nCfg.chatId /\ nCfg.webhookUrl
    /\ nChunks.telegram = 2
    /\ RequestsTo("telegram") = <<>>
    /\ Len(RequestsTo("discord")) = 2
    /\ nResult = [telegram |-> FALSE, discord |-> TRUE]

\* what one call was, whatever came of it
ShapeOf(c) == [kind |-> c.kind, channel |-> c.channel, chunk |-> c.chunk, ms |-> c.ms]

\* the calls a channel with n chunks is due: send chunk 0, a 500 ms delay, send
\* chunk 1, ..., send chunk n-1, and no delay after the last chunk
PlanOf(channel, n) ==
    [k \in 1..(IF n = 0 THEN 0 ELSE 2 * n - 1) |->
        IF k % 2 = 1
        THEN [kind |-> "send", channel |-> channel, chunk |-> (k - 1) \div 2, ms |-> 0]
        ELSE [kind |-> "sleep", channel |-> channel, chunk |-> (k \div 2) - 1, ms |-> 500]]

\* every Telegram call before any Discord call
Plan == PlanOf("telegram", nChunks.telegram) \o PlanOf("discord", nChunks.discord)

\* C24: the calls notify makes, each awaited before the next, follow one fixed
\* order at every moment: the Telegram chunks in index order with a 500 ms delay
\* between two consecutive chunks, then the Discord chunks likewise; when notify
\* returns the whole order has been carried out.
C24_SendsSequentialPacedChannelByChannel ==
    /\ Len(nCalls) <= Len(Plan)
    /\ \A k \in 1..Len(nCalls) : ShapeOf(nCalls[k]) = Plan[k]
    /\ nPc = "returned" => Len(nCalls) = Len(Plan)

\* notify has returned after two chunks on each channel: send, delay, send on
\* Telegram, then send, delay, send on Discord
C24_Witness ==
    /\ nPc = "returned"
    /\ nChunks = [telegram |-> 2, discord |-> 2]
    /\ Len(nCalls) = 6
    /\ nCalls[2].kind = "sleep" /\ nCalls[2].ms = PacingDelayMs
    /\ nCalls[3].channel = "telegram"
    /\ nCalls[4].channel = "discord" /\ nCalls[4].kind = "send"

\* fetchPublicPrograms has returned its list
Returned == pPc = "returned"

\* C25: the first request goes to the programs URL and every later one to the
\* links.next of the page before it, a request being made only once the page
\* before it has arrived; the list built is the retained items of the pages
\* received, concatenated in page order; and fetchPublicPrograms returns exactly
\* when the page just received has no links.next, no earlier page lacking one.
C25_FollowsNextUntilAbsent ==
    /\ Len(pRequests) \in {Len(pPages), Len(pPages) + 1}
    /\ Len(pRequests) >= 1 => pRequests[1].url = "base"
    /\ \A k \in 2..Len(pRequests) : pRequests[k].url = pPages[k - 1].next
    /\ pAll = Flatten([k \in 1..Len(pPages) |-> retained(pPages[k])])
    /\ \A k \in 1..(Len(pPages) - 1) : pPages[k].next # ""
    /\ Returned <=> (Len(pPages) >= 1 /\ Last(pPages).next = "")
    /\ Returned => Len(pRequests) = Len(pPages)

\* two pages were fetched, the second from the first one's links.next, and the
\* list holds an item of each in page order
C25_Witness ==
    /\ pPc = "returned"
    /\ Len(pPages) = 2
    /\ pPages[1].next = "u1"
    /\ pRequests[2].url = "u1"
    /\ pPages[2].next = ""
    /\ Len(pPages[1].data) = 1 /\ Len(pPages[2].data) = 1
    /\ pAll = <<normalizeProgram(pPages[1].data[1]), normalizeProgram(pPages[2].data[1])>>

\* every item received, page after page
ItemsReceived == Flatten([k \in 1..Len(pPages) |-> pPages[k].data])

\* the positions of the items received whose state is the public one
PublicPositions == {i \in 1..Len(ItemsReceived) : ItemsReceived[i].state = "public_mode"}

\* C26: the list fetchPublicPrograms returns is the items received whose state is
\* 'public_mode', each normalized, in the order received: nothing else is in it,
\* none of them is missing, and an item of another state between two of them
\* changes neither.
C26_ExactlyThePublicItemsInOrder ==
    Returned =>
        /\ Len(pAll) = Cardinality(PublicPositions)
        /\ \A k \in 1..Len(pAll) :
               pAll[k] = normalizeProgram(ItemsReceived[Nth(PublicPositions, k)])

\* a page carried a soft-launched item before a public one; a second page carried
\* a public one; the list returned holds the two public items
C26_Witness ==
    /\ pPc = "returned"
    /\ Len(pPages) = 2
    /\ Len(pPages[1].data) = 2
    /\ pPages[1].data[1].state = "soft_launched"
    /\ pPages[1].data[2].state = "public_mode"
    /\ Len(pPages[2].data) = 1
    /\ Len(pAll) = 2

\* the names of the variables that are unset or empty
MissingSet == {name \in {"H1_API_USERNAME", "H1_API_TOKEN"} :
                 \/ name = "H1_API_USERNAME" /\ pCreds.username # "set"
                 \/ name = "H1_API_TOKEN" /\ pCreds.token # "set"}

\* C27: with H1_API_USERNAME or H1_API_TOKEN unset or empty, fetchPublicPrograms
\* makes no request at any point and can only end by throwing the credentials
\* error, once, whose message names each missing variable and no other; the run
\* that called it ends rejected, never reaching the diff, notify or save.
C27_MissingCredentialsFailBeforeAnyRequest ==
    MissingSet # {} =>
        /\ pRequests = <<>>
        /\ pPc \in {"start", "threw", "run rejected"}
        /\ pPc # "start" =>
               /\ pError.kind = "credentials"
               /\ Range(pError.missing) = MissingSet
               /\ Len(pError.missing) = Cardinality(MissingSet)

\* the run was rejected with both variables named: the username unset, the token
\* empty
C27_Witness ==
    /\ pPc = "run rejected"
    /\ pCreds = [username |-> "unset", token |-> "empty"]
    /\ pError = [kind |-> "credentials", missing |-> <<"H1_API_USERNAME", "H1_API_TOKEN">>]
    /\ pRequests = <<>>

----------------------------------------------------------------------------
(* src/src/db.js: save(db, dbPath) and load(dbPath) on one path, the file as *)
(* the text that is written and read                                         *)

MaxStoreKeys == 2   \* ids in one db object, members in one programs text

StoreKeys    == {Digits(n) : n \in 1..MaxStoreKeys}
StoreRecords == [handle : {"a", "b"}, first_seen : {0}]
StoreStamps  == {Null, <<0>>}

\* the db objects handed to save
StoreDbs == [programs : UNION {[K -> StoreRecords] : K \in SUBSET StoreKeys},
             last_run : StoreStamps]

\* the members a programs object can have in a text, a key possibly written twice
StoreEntries == SeqUpTo([key : StoreKeys, value : StoreRecords], MaxStoreKeys)

\* the elements a programs array can have in a text, under their indices
StoreElements == {<<>>} \cup {<<[key |-> Digits(0), value |-> r]>> : r \in StoreRecords}

\* what can be at dbPath before the first call
StoreContents ==
    {AbsentContent, JsonText("unparseable", "undefined", <<>>, Null)}
    \cup {JsonText(top, "undefined", <<>>, Null) : top \in {"null", "scalar", "array"}}
    \cup {JsonText("object", programs, <<>>, t) :
              programs \in {"undefined", "scalar", "null"}, t \in StoreStamps}
    \cup {JsonText("object", "array", elements, t) :
              elements \in StoreElements, t \in StoreStamps}
    \cup {JsonText("object", "object", entries, t) :
              entries \in StoreEntries, t \in StoreStamps}

InitStore ==
    /\ sContent \in StoreContents
    /\ sDir \in BOOLEAN
    /\ sContent.kind # "absent" => sDir
    /\ sDirAtStart = sDir
    /\ sDb \in StoreDbs
    /\ sPc = "start"
    /\ sOutcome = "none"
    /\ sReadError = FALSE
    /\ sLoaded = createEmptyDb

\* save(db, dbPath): mkdir when the directory is missing, db.last_run = now, then
\* writeFile; outcome as in SaveOutcomes
SSave(outcome) ==
    /\ sPc = "start"
    /\ sOutcome' = outcome
    /\ sDir' = (sDir \/ outcome # "refused")
    /\ sDb' = stamped(sDb, 1)
    /\ sContent' = CASE outcome = "written"     -> stringify(stamped(sDb, 1))
                     [] outcome = "interrupted" -> JsonText("unparseable", "undefined", <<>>, Null)
                     [] outcome = "refused"     -> sContent
    /\ sPc' = IF outcome = "written" THEN "saved" ELSE "save failed"
    /\ UNCHANGED <<sDirAtStart, sReadError, sLoaded, outsideStore>>

\* load(dbPath), on what is at the path now
SLoad(readError) ==
    /\ sPc \in {"start", "saved", "save failed"}
    /\ sLoaded' = load(FileOf(sContent), readError)
    /\ sReadError' = readError
    /\ sPc' = "loaded"
    /\ UNCHANGED <<sContent, sDir, sDirAtStart, sDb, sOutcome, outsideStore>>

StoreInit == InitRun /\ InitDiffIdle /\ InitFetchIdle /\ InitAddIdle /\ InitPagesIdle
             /\ InitChunkIdle /\ InitNotifyIdle /\ InitStore /\ InitReconIdle /\ InitMainIdle /\ InitFormatIdle /\ InitOverlapIdle

NextStore ==
    \/ \E outcome \in SaveOutcomes : SSave(outcome)
    \/ \E readError \in BOOLEAN : SLoad(readError)

SpecStore == StoreInit /\ [][NextStore]_vars

\* the cases of the claim: no file, a file that cannot be read, a text that is
\* not JSON, a JSON value without a programs member (null, a number, a string, an
\* array, an object that lacks it), a programs member that is not an object (a
\* number, a string, a boolean, null). An array is an object in JavaScript and is
\* not among them.
Unusable(content, readError) ==
    \/ content.kind = "absent"
    \/ readError
    \/ content.top \in {"unparseable", "null", "scalar", "array"}
    \/ content.programs \in {"undefined", "scalar", "null"}

C30_SaveThenLoadRoundTrip ==
    (sPc = "loaded" /\ sOutcome = "written" /\ ~sReadError) =>
        /\ sLoaded.programs = sDb.programs
        /\ sLoaded.last_run # Null
        /\ sLoaded.last_run = sDb.last_run
        /\ sDir

\* a db object with two ids was saved under a directory that did not exist, and
\* load returned both records
C30_Witness ==
    /\ sPc = "loaded"
    /\ sOutcome = "written"
    /\ ~sReadError
    /\ ~sDirAtStart
    /\ DOMAIN sDb.programs = {Digits(1), Digits(2)}
    /\ sLoaded.programs = sDb.programs
    /\ sLoaded.last_run = <<1>>

\* the state file the run found is not one load accepts: a text cut short by an
\* interrupted write, or a text of another structure
CorruptAtStart == fileAtStart.kind \in {"partial", "invalid"}

\* C29: a run that completes after finding a corrupt or structurally invalid
\* state file started from the empty state, reported every fetched entity as new,
\* passed them all to notify in one call (no call when nothing was fetched), and
\* left a state file whose keys are exactly the ids fetched in this run.
C29_CorruptFileMeansEverythingIsNew ==
    (pc = "done" /\ CorruptAtStart) =>
        /\ loaded = createEmptyDb
        /\ newPrograms = currentPrograms
        /\ notifyCalls = (IF currentPrograms = <<>> THEN <<>> ELSE <<currentPrograms>>)
        /\ file.kind = "doc"
        /\ DOMAIN file.programs = IdsOf(currentPrograms)

\* a run found the truncated text of an interrupted save, although an id had been
\* saved before that; it alerted for both fetched programs and saved only them
C29_Witness ==
    /\ pc = "done"
    /\ fileAtStart.kind = "partial"
    /\ persistedEver # {}
    /\ Len(currentPrograms) = 2
    /\ notifyCalls = <<currentPrograms>>
    /\ DOMAIN file.programs = IdsOf(currentPrograms)

\* the first run found a file of another structure and alerted for what it fetched
C29_WitnessInvalid ==
    /\ pc = "done"
    /\ fileAtStart.kind = "invalid"
    /\ Len(currentPrograms) = 1
    /\ notifyCalls = <<currentPrograms>>
    /\ DOMAIN file.programs = IdsOf(currentPrograms)

\* C31 as stated: at every moment the state file holds what the invocation found
\* or a complete document, so that no read, whenever it happens, meets a text cut
\* short.
C31_FileIsOldOrNewComplete ==
    file = fileAtStart \/ file.kind = "doc"

----------------------------------------------------------------------------
(* src/src/recon.js: isEnabled() and dispatchRecon(newPrograms)             *)

\* values of AUTO_RECON
AutoReconValues ==
    {Unset, EnvText(<<>>), EnvText(<<"1">>), EnvText(<<"0">>),
     EnvText(<<"t", "r", "u", "e">>), EnvText(<<"T", "R", "U", "E">>),
     EnvText(<<"T", "r", "u", "e">>), EnvText(<<"f", "a", "l", "s", "e">>),
     EnvText(<<"y", "e", "s">>), EnvText(<<"t", "r", "u", "e", " ">>)}

\* String.prototype.toLowerCase on the letters that occur
lowerChar(c) == CASE c = "T" -> "t" [] c = "R" -> "r" [] c = "U" -> "u" [] c = "E" -> "e"
                  [] OTHER -> c
toLowerCase(text) == [i \in 1..Len(text) |-> lowerChar(text[i])]

\* an isEnabled that takes any non-empty AUTO_RECON for a yes
isEnabledWhenSet(value) == value.set /\ value.text # <<>>

\* isEnabled: process.env.AUTO_RECON?.toLowerCase() is 'true' or '1'
isEnabled(value) ==
    /\ value.set
    /\ toLowerCase(value.text) \in {<<"t", "r", "u", "e">>, <<"1">>}

\* process.env.GH_PUSH_TOKEN || process.env.GITHUB_TOKEN is truthy
hasToken(env) == env.pushToken = "set" \/ env.githubToken = "set"

\* what fetchFn can produce for the POST
ReconOutcomes == {Response(200), Response(204), Response(404), Response(500),
                  Thrown("TypeError")}

\* response.status === 204 || response.ok
dispatched(o) == o.kind = "response" /\ (o.status = 204 \/ ok(o.status))

InitRecon ==
    /\ rEnv \in [autoRecon : AutoReconValues, pushToken : CredValues,
                  githubToken : CredValues, repo : CredValues]
    /\ rInput \in NotifyInputs
    /\ rPc = "start"
    /\ rRequests = <<>>
    /\ rOutcome = "none"
    /\ rResult = FALSE

\* the three early returns of dispatchRecon
RStart ==
    /\ rPc = "start"
    /\ IF ~isEnabled(rEnv.autoRecon) THEN rPc' = "returned"
       ELSE IF rInput.isNull \/ rInput.length = 0 THEN rPc' = "returned"
       ELSE IF ~hasToken(rEnv) \/ rEnv.repo # "set" THEN rPc' = "returned"
       ELSE rPc' = "requesting"
    /\ UNCHANGED <<rEnv, rInput, rRequests, rOutcome, rResult, outsideRecon>>

\* try { await fetchFn(url, ...); return 204 or ok } catch { return false }
RRequest(o) ==
    /\ rPc = "requesting"
    /\ rRequests' = Append(rRequests, [repo |-> rEnv.repo, programs |-> rInput.length])
    /\ rOutcome' = transport(o)
    /\ rResult' = dispatched(o)
    /\ rPc' = "returned"
    /\ UNCHANGED <<rEnv, rInput, outsideRecon>>

\* run(): await dispatchReconFn(newPrograms) resolved, whatever the boolean; the
\* run goes on to addPrograms and save
RRunPersists ==
    /\ rPc = "returned"
    /\ rPc' = "run persists"
    /\ UNCHANGED <<rEnv, rInput, rRequests, rOutcome, rResult, outsideRecon>>

ReconInit == InitRun /\ InitDiffIdle /\ InitFetchIdle /\ InitAddIdle /\ InitPagesIdle
             /\ InitChunkIdle /\ InitNotifyIdle /\ InitStoreIdle /\ InitRecon /\ InitMainIdle /\ InitFormatIdle /\ InitOverlapIdle

NextRecon ==
    \/ RStart
    \/ \E o \in ReconOutcomes : RRequest(o)
    \/ RRunPersists

SpecRecon == ReconInit /\ [][NextRecon]_vars

\* AUTO_RECON reads 'true' in any mix of upper and lower case, or '1'
SaysYes(value) ==
    /\ value.set
    /\ \/ value.text = <<"1">>
       \/ /\ Len(value.text) = 4
          /\ value.text[1] \in {"t", "T"} /\ value.text[2] \in {"r", "R"}
          /\ value.text[3] \in {"u", "U"} /\ value.text[4] \in {"e", "E"}

\* C32: dispatchRecon sends a request (one at most) only if AUTO_RECON says yes,
\* the list is not empty and a token and GITHUB_REPOSITORY are set; it never
\* throws; a request answered with a non-2xx status or that threw makes it
\* return false; and whatever it returns the run goes on to Persist.
C32_DispatchOnlyWhenEnabledNeverFails ==
    /\ Len(rRequests) <= 1
    /\ rRequests # <<>> =>
           /\ SaysYes(rEnv.autoRecon)
           /\ ~rInput.isNull /\ rInput.length > 0
           /\ (rEnv.pushToken = "set" \/ rEnv.githubToken = "set")
           /\ rEnv.repo = "set"
    /\ rPc # "threw"
    /\ (rPc \in {"returned", "run persists"} /\ rOutcome \in {"status", "thrown"}) => ~rResult
    /\ (rPc \in {"returned", "run persists"} /\ rRequests = <<>>) => ~rResult

\* AUTO_RECON=TRUE, two new programs, GITHUB_TOKEN and the repository set: the
\* request threw, dispatchRecon returned false and the run went on to Persist
C32_Witness ==
    /\ rPc = "run persists"
    /\ rEnv.autoRecon = EnvText(<<"T", "R", "U", "E">>)
    /\ rEnv.pushToken = "unset" /\ rEnv.githubToken = "set"
    /\ rInput.length = 2
    /\ Len(rRequests) = 1
    /\ rOutcome = "thrown"
    /\ ~rResult

----------------------------------------------------------------------------
(* src/src/watcher.js: the process entry, run() with its own collaborators   *)

\* the ways fetchPublicPrograms rejects: validateCredentials throws; a 429, 5xx or
\* network error is still there at the last attempt; a status that is not retried;
\* a network error whose name is 'Error', rethrown at once; response.json() rejects
FetchFailures == {"credentials", "exhausted", "status", "network Error", "body"}

\* what makes run() reject: nothing in run() catches
FatalCauses == FetchFailures \cup {"save"}

InitMain ==
    /\ mPc = "start"
    /\ mDegraded = {}
    /\ mNew = 0
    /\ mAlert = [telegram |-> FALSE, discord |-> FALSE]
    /\ mCause = "none"
    /\ mRun = "pending"
    /\ mExit = <<>>

\* const state = await db.load(dbPath): a file that is absent, unreadable or
\* invalid gives the empty state, load never rejects
MLoad(readFails) ==
    /\ mPc = "start"
    /\ mPc' = "loaded"
    /\ mDegraded' = IF readFails THEN mDegraded \cup {"state read"} ELSE mDegraded
    /\ UNCHANGED <<mNew, mAlert, mCause, mRun, mExit, outsideMain>>

\* const currentPrograms = await fetchPrograms() and the diff, when the fetch
\* resolves with n programs that are not in the state
MFetchOk(n) ==
    /\ mPc = "loaded"
    /\ mNew' = n
    /\ mPc' = IF n = 0 THEN "saving" ELSE "notifying"
    /\ UNCHANGED <<mDegraded, mAlert, mCause, mRun, mExit, outsideMain>>

\* await fetchPrograms() rejects: run() rejects with the same error
MFetchFails(cause) ==
    /\ mPc = "loaded"
    /\ mCause' = cause
    /\ mRun' = "rejected"
    /\ mPc' = "settled"
    /\ UNCHANGED <<mDegraded, mNew, mAlert, mExit, outsideMain>>

\* a run() that gives up when no channel took the alert
MNotifyFatal(telegram, discord) ==
    /\ mPc = "notifying"
    /\ mAlert' = [telegram |-> telegram, discord |-> discord]
    /\ mDegraded' = IF telegram /\ discord THEN mDegraded
                    ELSE mDegraded \cup {"notification"}
    /\ IF ~telegram /\ ~discord
       THEN mCause' = "notification" /\ mRun' = "rejected" /\ mPc' = "settled"
       ELSE mCause' = mCause /\ mRun' = mRun /\ mPc' = "dispatching"
    /\ UNCHANGED <<mNew, mExit, outsideMain>>

\* const alertResult = await notifyFn(newPrograms): notify resolves with one
\* boolean per channel, false for a channel that failed or is not configured
MNotify(telegram, discord) ==
    /\ mPc = "notifying"
    /\ mAlert' = [telegram |-> telegram, discord |-> discord]
    /\ mDegraded' = IF telegram /\ discord THEN mDegraded
                    ELSE mDegraded \cup {"notification"}
    /\ mCause' = mCause /\ mRun' = mRun /\ mPc' = "dispatching"
    /\ UNCHANGED <<mNew, mExit, outsideMain>>

\* await dispatchReconFn(newPrograms): dispatchRecon resolves with a boolean
MDispatch(failed) ==
    /\ mPc = "dispatching"
    /\ mDegraded' = IF failed THEN mDegraded \cup {"side-dispatch"} ELSE mDegraded
    /\ mPc' = "saving"
    /\ UNCHANGED <<mNew, mAlert, mCause, mRun, mExit, outsideMain>>

\* await db.save(state, dbPath), on either branch, and the return of run(): a
\* mkdir or writeFile that rejects makes run() reject
MSave(outcome) ==
    /\ mPc = "saving"
    /\ mPc' = "settled"
    /\ IF outcome = "written"
       THEN mRun' = "resolved" /\ mCause' = mCause
       ELSE mRun' = "rejected" /\ mCause' = "save"
    /\ UNCHANGED <<mDegraded, mNew, mAlert, mExit, outsideMain>>

\* a process entry that reports success however run() settled
MExitAlwaysZero ==
    /\ mPc = "settled"
    /\ mExit' = Append(mExit, 0)
    /\ mPc' = "exited"
    /\ UNCHANGED <<mDegraded, mNew, mAlert, mCause, mRun, outsideMain>>

\* .then(() => process.exit(0)).catch(() => process.exit(1))
MExit ==
    /\ mPc = "settled"
    /\ mExit' = Append(mExit, IF mRun = "resolved" THEN 0 ELSE 1)
    /\ mPc' = "exited"
    /\ UNCHANGED <<mDegraded, mNew, mAlert, mCause, mRun, outsideMain>>

MainInit == InitRun /\ InitDiffIdle /\ InitFetchIdle /\ InitAddIdle /\ InitPagesIdle
            /\ InitChunkIdle /\ InitNotifyIdle /\ InitStoreIdle /\ InitReconIdle /\ InitMain /\ InitFormatIdle /\ InitOverlapIdle

NextMain ==
    \/ \E readFails \in BOOLEAN : MLoad(readFails)
    \/ \E n \in 0..MaxBatch : MFetchOk(n)
    \/ \E cause \in FetchFailures : MFetchFails(cause)
    \/ \E telegram \in BOOLEAN, discord \in BOOLEAN : MNotify(telegram, discord)
    \/ \E failed \in BOOLEAN : MDispatch(failed)
    \/ \E outcome \in {"written", "rejects"} : MSave(outcome)
    \/ MExit

SpecMain == MainInit /\ [][NextMain]_vars

\* C33: the process exits once, with code 0 when run() resolved, with no new
\* program as well as with some, and with a code other than 0 when run() rejected.
C33_ExitCodeFollowsRun ==
    /\ Len(mExit) <= 1
    /\ mExit # <<>> => /\ mRun \in {"resolved", "rejected"}
                       /\ mRun = "resolved" => mExit[1] = 0
                       /\ mRun = "rejected" => mExit[1] # 0
    /\ (mRun = "resolved" /\ mPc = "settled") => ENABLED MExit

\* run() resolved with no new program and the process exited with code 0
C33_Witness ==
    mPc = "exited" /\ mRun = "resolved" /\ mNew = 0 /\ mExit = <<0>>

\* run() resolved with new programs and the process exited with code 0
C33_WitnessNew ==
    mPc = "exited" /\ mRun = "resolved" /\ mNew > 0 /\ mExit = <<0>>

\* run() rejected and the process exited with code 1
C33_WitnessFatal ==
    mPc = "exited" /\ mRun = "rejected" /\ mExit = <<1>>

\* C34 as stated: a run that fails failed on missing credentials or on a fetch
\* whose retries were used up, nothing else.
C34_OnlyConfigurationAndExhaustedRetriesFail ==
    mRun = "rejected" => mCause \in {"credentials", "exhausted"}

\* C34: the run fails exactly when the fetch fails or the save fails; a state
\* file that could not be read, a channel that did not take the alert and a
\* side-dispatch that failed never fail it: the run goes on and, the fetch and the
\* save succeeding, the process exits with code 0.
C34_OnlyFetchAndSaveFail ==
    /\ mRun = "rejected" <=> mCause \in FatalCauses
    /\ mCause \in FatalCauses \cup {"none"}
    /\ (mPc = "exited" /\ mCause = "none") => mRun = "resolved" /\ mExit = <<0>>

\* the state file could not be read, no channel took the alert, the side-dispatch
\* failed, and the run completed: exit code 0
C34_Witness ==
    /\ mPc = "exited"
    /\ mDegraded = {"state read", "notification", "side-dispatch"}
    /\ mAlert = [telegram |-> FALSE, discord |-> FALSE]
    /\ mRun = "resolved"
    /\ mExit = <<0>>

\* the fetch was answered 404: the run failed, with no retry used up
C34_WitnessPermanentStatus ==
    mPc = "exited" /\ mCause = "status" /\ mExit = <<1>>

----------------------------------------------------------------------------
(* src/unnamed/part_001: escapeHtml and formatTelegramEntry                   *)

MaxText == 2   \* code units in a name or a handle

\* the characters names and handles are made of here
TextChars == {"a", "&", "<", ">"}

Texts == SeqUpTo(TextChars, MaxText)

RECURSIVE replaceAll(_, _, _)
\* text.replace(/c/g, by) for a one-character pattern c
replaceAll(text, c, by) ==
    IF text = <<>> THEN <<>>
    ELSE (IF Head(text) = c THEN by ELSE <<Head(text)>>) \o replaceAll(Tail(text), c, by)

Amp == <<"&", "a", "m", "p", ";">>
Lt  == <<"&", "l", "t", ";">>
Gt  == <<"&", "g", "t", ";">>

\* String(text).replace(/&/g, '&amp;').replace(/</g, '&lt;').replace(/>/g, '&gt;')
escapeHtml(text) == replaceAll(replaceAll(replaceAll(text, "&", Amp), "<", Lt), ">", Gt)

\* the money bag and the medal, two code units each
TextBounty == <<"bag-hi", "bag-lo">> \o <<" ", "B", "o", "u", "n", "t", "y">>
TextVdp    == <<"medal-hi", "medal-lo">> \o <<" ", "V", "D", "P">>

TextBulletBold == <<"bullet">> \o <<" ", "<", "b", ">">>
TextBoldCode   == <<"<", "/", "b", ">", " ", "(", "<", "c", "o", "d", "e", ">">>
TextCodeEnd    == <<"<", "/", "c", "o", "d", "e", ">", ")", " ">> \o EmDash \o <<" ">>
TextArrowUrl   == <<"\n", " ", " ", "arrow">> \o <<" ", "h", "t", "t", "p", "s", ":", "/", "/", "h", "a", "c", "k", "e", "r", "o", "n", "e", ".", "c", "o", "m", "/">>

\* formatTelegramEntry(p): the name and the handle escaped inside <b> and <code>,
\* and p.handle itself after https://hackerone.com/
formatTelegramEntry(p) ==
    TextBulletBold \o escapeHtml(p.name) \o TextBoldCode \o escapeHtml(p.handle)
    \o TextCodeEnd \o (IF p.offers_bounties THEN TextBounty ELSE TextVdp)
    \o TextArrowUrl \o p.handle

InitFormat ==
    /\ tProgram \in [name : Texts, handle : Texts, offers_bounties : BOOLEAN]
    /\ tPc = "ready"
    /\ tOut = <<>>

CallFormat ==
    /\ tPc = "ready"
    /\ tOut' = formatTelegramEntry(tProgram)
    /\ tPc' = "done"
    /\ UNCHANGED <<tProgram, outsideFormat>>

FormatInit == InitRun /\ InitDiffIdle /\ InitFetchIdle /\ InitAddIdle /\ InitPagesIdle
              /\ InitChunkIdle /\ InitNotifyIdle /\ InitStoreIdle /\ InitReconIdle
              /\ InitMainIdle /\ InitFormat /\ InitOverlapIdle

NextFormat == CallFormat

SpecFormat == FormatInit /\ [][NextFormat]_vars

\* one character of user text as HTML shows it
Escaped(c) == CASE c = "&" -> Amp [] c = "<" -> Lt [] c = ">" -> Gt [] OTHER -> <<c>>

RECURSIVE EscapedText(_)
EscapedText(text) ==
    IF text = <<>> THEN <<>> ELSE Escaped(Head(text)) \o EscapedText(Tail(text))

\* the part of an entry after https://hackerone.com/
UrlTail(entry, p) ==
    SubSeq(entry, Len(entry) - Len(p.handle) + 1, Len(entry))

\* the part of an entry before the line of the URL
FirstLine(entry, p) ==
    SubSeq(entry, 1, Len(entry) - Len(p.handle) - Len(TextArrowUrl))

\* C35 as stated: in the entry built for Telegram the name and the handle, the
\* handle inside the URL included, appear with '&', '<' and '>' escaped.
C35_UserTextEscapedEverywhere ==
    tPc = "done" =>
        tOut = TextBulletBold \o EscapedText(tProgram.name) \o TextBoldCode
               \o EscapedText(tProgram.handle) \o TextCodeEnd
               \o (IF tProgram.offers_bounties THEN TextBounty ELSE TextVdp)
               \o TextArrowUrl \o EscapedText(tProgram.handle)

\* what holds of the code: the name and the handle are escaped inside <b> and
\* <code>, and the URL ends with the handle as it came
C35_EscapedOutsideTheUrlOnly ==
    tPc = "done" =>
        /\ FirstLine(tOut, tProgram)
               = TextBulletBold \o EscapedText(tProgram.name) \o TextBoldCode
                 \o EscapedText(tProgram.handle) \o TextCodeEnd
                 \o (IF tProgram.offers_bounties THEN TextBounty ELSE TextVdp)
        /\ UrlTail(tOut, tProgram) = tProgram.handle

\* an entry whose handle is a<: the URL carries the '<' as it came
C35_RawHandleInUrl ==
    /\ tPc = "done"
    /\ tProgram.handle = <<"a", "<">>
    /\ UrlTail(tOut, tProgram) = <<"a", "<">>

----------------------------------------------------------------------------
(* run() and what notify returned *)

\* C36 as stated: a run that completes has saved its new programs whatever notify
\* returned, false for every channel included, and no later run reports new or
\* passes to notify an id saved so.
C36_SavedWhateverNotifyReturnsNeverAlertedLater ==
    /\ (pc = "done" /\ alertResults # <<>>) => IdsOf(newPrograms) \subseteq FileKeys(file)
    /\ Running => silentEver \cap (IdsOf(newPrograms) \cup Notified) = {}

\* C36: a run that completes has saved its new programs whatever notify returned,
\* false for every channel included; as long as no later load has fallen back to
\* the empty state, no later run reports new or passes to notify an id saved so.
C36_SavedWhateverNotifyReturns ==
    /\ (pc = "done" /\ alertResults # <<>>) =>
           /\ IdsOf(newPrograms) \subseteq FileKeys(file)
           /\ DeliveredNowhere => IdsOf(newPrograms) \subseteq silentEver
    /\ Running => (silentEver \cap trusted) \cap (IdsOf(newPrograms) \cup Notified) = {}

\* notify returned false for both channels in an earlier run, that run saved the
\* id, and a later run whose fetch brings the id again finds nothing new
C36_Witness ==
    /\ pc = "done"
    /\ runs >= 2
    /\ loadOk
    /\ notifyCalls = <<>>
    /\ \E k \in silentEver \cap trusted : /\ k \in IdsOf(currentPrograms)
                                          /\ k \in FileKeys(file)

\* the run in which notify returned false for both channels, saving its new ids
C36_WitnessSilentRun ==
    /\ pc = "done"
    /\ DeliveredNowhere
    /\ newPrograms # <<>>
    /\ IdsOf(newPrograms) \subseteq FileKeys(file)

----------------------------------------------------------------------------
(* fetchWithRetry: termination and the number of requests *)

\* the outcomes after which fetchWithRetry asks again: a 429 or 5xx status, or a
\* thrown error
AsksAgainAfter(o) == TransientStatus(o) \/ o.kind = "throw"

\* statuses and thrown errors are counted by the one parameter attempt, at most
\* MAX_RETRIES + 1 requests go out, and a 2xx response is the last outcome: it is
\* returned with no request and no delay after it
RequestsBoundedAndOkReturned ==
    /\ Len(outcomes) = (IF fpc = "request" THEN attempt - 1 ELSE attempt)
    /\ Len(outcomes) <= MAX_RETRIES + 1
    /\ \A i \in 1..Len(outcomes) :
           /\ i < Len(outcomes) => AsksAgainAfter(outcomes[i])
           /\ (outcomes[i].kind = "response" /\ ok(outcomes[i].status)) =>
                  /\ i = Len(outcomes)
                  /\ fpc = "returned"
                  /\ ferror = NoError
                  /\ Len(delays) = i - 1

\* the call has returned a response or thrown
Settled == fpc \in {"returned", "threw"}

\* C37: fetchWithRetry terminates whatever the server answers: 429/5xx statuses
\* and thrown errors are counted by one attempt counter, so at most
\* MAX_RETRIES + 1 requests are made for the URL, and a 2xx response on any
\* attempt is returned at once with no further request.
C37_TerminatesWithBoundedRequests ==
    /\ []RequestsBoundedAndOkReturned
    /\ <>Settled
    /\ [][Settled => UNCHANGED fetchVars]_vars

\* a 429, a network error and a 503 used up three attempts, and the 200 that
\* answered the fourth request was returned
C37_Witness ==
    /\ fpc = "returned"
    /\ outcomes = <<Response(429), Thrown("TypeError"), Response(503), Response(200)>>
    /\ attempt = 4

----------------------------------------------------------------------------
(* chunkMessages: the chunks of a split list *)

\* the text of chunk k without its last entry, the part header included: what the
\* loop held when it tested the last entry of the chunk
BeforeLastEntry(k) ==
    LET held == EntriesOf(cOut[k])
    IN  [header |-> partHeader(ChunkPrefix, Len(cPrograms), k) \o BlankLine,
         currentLength |-> Len(join(SubSeq(held, 1, Len(held) - 1))),
         entry |-> held[Len(held)]]

\* C38: in a split output a chunk is longer than maxLength only if it holds
\* exactly one entry: a chunk of two or more entries is at most maxLength long, its
\* length being the projected length that was tested before its last entry was
\* appended, computed with the header that carries the chunk's own part number.
C38_OnlySingleEntryChunksExceedMax ==
    (cPc = "done" /\ IsSplit) =>
        \A k \in 1..Len(cOut) :
            /\ Len(cOut[k]) > cMax => Len(EntriesOf(cOut[k])) = 1
            /\ Len(EntriesOf(cOut[k])) >= 2 =>
                   /\ Len(cOut[k]) <= cMax
                   /\ Len(cOut[k]) = projectedLength(Len(BeforeLastEntry(k).header),
                                                     BeforeLastEntry(k).currentLength, 2,
                                                     Len(BeforeLastEntry(k).entry))
                   /\ HeaderOf(cOut[k]) = partHeader(ChunkPrefix, Len(cPrograms), k)

\* a split output with a chunk of one entry that is longer than maxLength next to
\* a chunk of two entries or more
C38_Witness ==
    /\ cPc = "done"
    /\ IsSplit
    /\ \E k \in 1..Len(cOut) : Len(EntriesOf(cOut[k])) = 1 /\ Len(cOut[k]) > cMax
    /\ \E k \in 1..Len(cOut) : Len(EntriesOf(cOut[k])) >= 2

\* C39: chunkMessages returns no chunk for an empty list; for any other list every
\* chunk holds at least one entry, and in a split output chunk k carries part
\* number k in its header: 1, 2, ..., n in chunk order.
C39_NoEmptyChunkPartsNumberedInOrder ==
    cPc = "done" =>
        /\ Len(cPrograms) = 0 => cOut = <<>>
        /\ Len(cPrograms) > 0 =>
               /\ Len(cOut) >= 1
               /\ \A k \in 1..Len(cOut) :
                      /\ Len(EntriesOf(cOut[k])) >= 1
                      /\ Range(EntriesOf(cOut[k])) \subseteq Range(allEntries(cPrograms))
               /\ IsSingle \/ \A k \in 1..Len(cOut) :
                                  HeaderOf(cOut[k]) = partHeader(ChunkPrefix, Len(cPrograms), k)

\* four entries in three chunks, numbered 1, 2, 3
C39_Witness ==
    /\ cPc = "done"
    /\ Len(cPrograms) = 4
    /\ Len(cOut) = 3
    /\ \A k \in 1..3 : HeaderOf(cOut[k]) = partHeader(ChunkPrefix, 4, k)
    /\ \E k \in 1..3 : Len(EntriesOf(cOut[k])) = 2

\* chunkMessages of the empty list
C39_WitnessEmpty ==
    cPc = "done" /\ cPrograms = <<>> /\ cOut = <<>>

----------------------------------------------------------------------------
(* src/src/watcher.js and src/src/db.js: invocations of run() that share dbPath. *)
(* Every save completes here; what an interrupted save does is in Spec.          *)

Invocations == {1, 2, 3}

\* what fetchPrograms() returns to an invocation: nothing, or one program
OverlapBatches == {<<>>} \cup {<<p>> : p \in RunPrograms}

InProgress == {i \in Invocations : xPc[i] \in {"loaded", "diffed", "notified"}}
Finished   == {i \in Invocations : xPc[i] = "done"}

InitOverlap ==
    /\ xLimit \in {1, 2}
    /\ xFile = AbsentFile
    /\ xPc = [i \in Invocations |-> "idle"]
    /\ xLoaded = [i \in Invocations |-> createEmptyDb]
    /\ xFileAtLoad = [i \in Invocations |-> AbsentFile]
    /\ xBatch = [i \in Invocations |-> <<>>]
    /\ xNew = [i \in Invocations |-> <<>>]
    /\ xNotified = [i \in Invocations |-> {}]
    /\ xSaved = [i \in Invocations |-> {}]
    /\ xSeen = [i \in Invocations |-> [running |-> {}, done |-> {}]]
    /\ xFellBack = FALSE
    /\ xClock = 0

\* Step 1 of invocation i: const state = await db.load(dbPath). Nothing in run()
\* or in load looks for another invocation: no lock is taken
XLoad(i, readError) ==
    /\ xPc[i] = "idle"
    /\ Cardinality(InProgress) < xLimit
    /\ xLoaded' = [xLoaded EXCEPT ![i] = load(xFile, readError)]
    /\ xFileAtLoad' = [xFileAtLoad EXCEPT ![i] = xFile]
    /\ xSeen' = [xSeen EXCEPT ![i] = [running |-> InProgress, done |-> Finished]]
    /\ xFellBack' = (xFellBack \/ (xFile.kind # "absent" /\ ~loadReadsFile(xFile, readError)))
    /\ xClock' = xClock + 1
    /\ xPc' = [xPc EXCEPT ![i] = "loaded"]
    /\ UNCHANGED <<xLimit, xFile, xBatch, xNew, xNotified, xSaved, outsideOverlap>>

\* Steps 2 and 3: await fetchPrograms(), then db.diffPrograms(state, currentPrograms)
XFetchDiff(i, batch) ==
    /\ xPc[i] = "loaded"
    /\ xBatch' = [xBatch EXCEPT ![i] = batch]
    /\ xNew' = [xNew EXCEPT ![i] = diffPrograms(xLoaded[i], batch)]
    /\ xPc' = [xPc EXCEPT ![i] = "diffed"]
    /\ UNCHANGED <<xLimit, xFile, xLoaded, xFileAtLoad, xNotified, xSaved, xSeen,
                   xFellBack, xClock, outsideOverlap>>

\* Steps 4 and 5: await notifyFn(newPrograms); await dispatchReconFn(newPrograms)
XNotify(i) ==
    /\ xPc[i] = "diffed"
    /\ Len(xNew[i]) # 0
    /\ xNotified' = [xNotified EXCEPT ![i] = IdsOf(xNew[i])]
    /\ xPc' = [xPc EXCEPT ![i] = "notified"]
    /\ UNCHANGED <<xLimit, xFile, xLoaded, xFileAtLoad, xBatch, xNew, xSaved, xSeen,
                   xFellBack, xClock, outsideOverlap>>

\* a save that reads the file again and keeps the keys it finds there
XSaveMerging(i) ==
    /\ \/ xPc[i] = "diffed" /\ Len(xNew[i]) = 0
       \/ xPc[i] = "notified"
    /\ LET db     == addPrograms(xLoaded[i], xNew[i], xClock).db
           merged == [k \in FileKeys(xFile) \cup DOMAIN db.programs |->
                         IF k \in DOMAIN db.programs THEN db.programs[k]
                         ELSE xFile.programs[k]]
       IN  /\ xFile' = DocFile(stamped([db EXCEPT !.programs = merged], xClock))
           /\ xSaved' = [xSaved EXCEPT ![i] = DOMAIN merged]
    /\ xPc' = [xPc EXCEPT ![i] = "done"]
    /\ UNCHANGED <<xLimit, xLoaded, xFileAtLoad, xBatch, xNew, xNotified, xSeen,
                   xFellBack, xClock, outsideOverlap>>

\* Persist, on either branch: db.addPrograms(state, newPrograms) where there are
\* new programs, then await db.save(state, dbPath): writeFile replaces whatever is
\* at dbPath with the state of this invocation
XSave(i) ==
    /\ \/ xPc[i] = "diffed" /\ Len(xNew[i]) = 0
       \/ xPc[i] = "notified"
    /\ LET db == addPrograms(xLoaded[i], xNew[i], xClock).db
       IN  /\ xFile' = DocFile(stamped(db, xClock))
           /\ xSaved' = [xSaved EXCEPT ![i] = DOMAIN db.programs]
    /\ xPc' = [xPc EXCEPT ![i] = "done"]
    /\ UNCHANGED <<xLimit, xLoaded, xFileAtLoad, xBatch, xNew, xNotified, xSeen,
                   xFellBack, xClock, outsideOverlap>>

OverlapInit == InitRun /\ InitDiffIdle /\ InitFetchIdle /\ InitAddIdle /\ InitPagesIdle
               /\ InitChunkIdle /\ InitNotifyIdle /\ InitStoreIdle /\ InitReconIdle
               /\ InitMainIdle /\ InitFormatIdle /\ InitOverlap

NextOverlap ==
    \/ \E i \in Invocations, readError \in BOOLEAN : XLoad(i, readError)
    \/ \E i \in Invocations, batch \in OverlapBatches : XFetchDiff(i, batch)
    \/ \E i \in Invocations : XNotify(i)
    \/ \E i \in Invocations : XSave(i)

SpecOverlap == OverlapInit /\ [][NextOverlap]_vars

\* invocation j loaded after invocation i had saved
After(i, j) == xPc[j] # "idle" /\ i \in xSeen[j].done

\* C40: nothing keeps two invocations apart: one can load while another is in
\* progress, and a save writes the keys its own invocation loaded and fetched,
\* whatever the file holds by then. With at most one invocation at a time no
\* invocation saves over a file that changed since it loaded, and, the loads
\* reading the file, every id an invocation saved stays in the file and is never
\* passed to notify by a later invocation.
C40_LostUpdateOnlyWhenOverlapping ==
    /\ \A i \in Finished :
           xSaved[i] = DOMAIN xLoaded[i].programs \cup IdsOf(xBatch[i])
    /\ xLimit = 1 =>
           /\ \A i \in InProgress : xFile = xFileAtLoad[i]
           /\ ~xFellBack =>
                  \A i \in Finished :
                      /\ xSaved[i] \subseteq FileKeys(xFile)
                      /\ \A j \in Invocations :
                             After(i, j) => xSaved[i] \cap xNotified[j] = {}

\* two invocations loaded before either saved; the one that saved last wrote the
\* file without the id the other had alerted for and saved; a third invocation,
\* started after both, found that id new and passed it to notify again
C40_Witness ==
    /\ xLimit = 2
    /\ ~xFellBack
    /\ xSeen[2].running = {1} /\ xSeen[2].done = {}
    /\ xSeen[3].done = {1, 2}
    /\ xPc[3] = "done"
    /\ \E k \in xSaved[1] : /\ k \in xNotified[1]
                             /\ k \notin xSaved[2]
                             /\ k \in xNotified[3]

\* the same invocations one at a time: the third finds nothing new
C40_WitnessSerial ==
    /\ xLimit = 1
    /\ ~xFellBack
    /\ xSeen[2].done = {1} /\ xSeen[3].done = {1, 2}
    /\ xPc[3] = "done"
    /\ xNotified[1] # {} /\ xNotified[2] # {} /\ xNotified[1] # xNotified[2]
    /\ xBatch[3] # <<>> /\ xNew[3] = <<>>

====
